---------------------------- MODULE Spec2Model ----------------------------
(***************************************************************************)
(* Tensor-parallel, adapter-aware linear layers of lorax_server            *)
(* (server/lorax_server/utils/layers.py).                                  *)
(*                                                                         *)
(* One process group of `process_group.size` ranks (0 .. size-1) drives    *)
(* one layer object.  Every rank runs the layer's forward on its own       *)
(* shard; a rank runs until it blocks in a collective call or returns.     *)
(* A collective completes when every rank of the group has issued it.      *)
(*                                                                         *)
(* Tensors are matrices of integers: a sequence of rows, each a sequence   *)
(* of columns.  Python's 0-based half-open column slice [s, e) is the      *)
(* columns s+1 .. e here.  Matrix kernels are exact.                       *)
(***************************************************************************)
EXTENDS Integers, Sequences, FiniteSets, TLC

(***************************************************************************)
(* Bounds of the model.                                                    *)
(***************************************************************************)
MaxWorld == 2          \* process-group sizes 1 .. MaxWorld
MaxRows == 3           \* batch rows of an adapter-aware forward
FeaturesPerRank == 2   \* input features held by one rank of a row shard
OutPerRank == 2        \* output columns of one layer name held by one rank
MaxVocab == 5          \* vocabulary sizes 1 .. MaxVocab (embedding, head)
MaxCalls == 2          \* forward calls in a row on one layer and one batch
MaxLayers == 2         \* decoder layers of a FlashMistral model: 1 .. MaxLayers
MaxSeq == 2            \* max_position_embeddings 1 .. MaxSeq, max_s 1 .. MaxSeq + 1
EmbedDim == 2          \* width of an embedding row
AdapterIds == {0, 1}   \* adapter ids a batch may use

(***************************************************************************)
(* Matrices.                                                               *)
(***************************************************************************)
Rows(M) == Len(M)

Cols(M) == IF Len(M) = 0 THEN 0 ELSE Len(M[1])

\* a tensor with its entries computed and stored, as every torch operation
\* returns it (the same value as M)
Tensor(M) == [i \in 1..Len(M) |-> M[i] \o <<>>] \o <<>>

Zeros(n, m) == Tensor([i \in 1..n |-> [j \in 1..m |-> 0]])

\* sum of u[k] * v[k][j] over k: one entry of a matrix product
Dot(u, A, j) ==
    LET S[k \in 0..Len(u)] == IF k = 0 THEN 0 ELSE S[k - 1] + u[k] * A[k][j]
    IN S[Len(u)]

\* X @ A
MatMul(X, A) ==
    Tensor([i \in 1..Rows(X) |-> [j \in 1..Cols(A) |-> Dot(X[i], A, j)]])

\* X + Y, element-wise
MatAdd(X, Y) ==
    Tensor([i \in 1..Rows(X) |-> [j \in 1..Cols(X) |-> X[i][j] + Y[i][j]]])

\* M[:, s:e] (an end past the last column stops at the last column)
ColSlice(M, s, e) ==
    LET end == IF e > Cols(M) THEN Cols(M) ELSE e
    IN Tensor([i \in 1..Rows(M) |-> [j \in 1..(end - s) |-> M[i][s + j]]])

\* M[s:e, :]
RowSlice(M, s, e) == Tensor([i \in 1..(e - s) |-> M[s + i]])

\* torch.cat([X, Y], dim=1)
CatCols2(X, Y) == Tensor([i \in 1..Rows(X) |-> X[i] \o Y[i]])

\* torch.cat(list, dim=-1) of a non-empty list of matrices
RECURSIVE CatCols(_)
CatCols(list) ==
    IF Len(list) = 1 THEN list[1]
    ELSE CatCols2(CatCols(SubSeq(list, 1, Len(list) - 1)), list[Len(list)])

\* the element-wise sum of a non-empty list of matrices
RECURSIVE SumAll(_)
SumAll(list) ==
    IF Len(list) = 1 THEN list[1]
    ELSE MatAdd(SumAll(SubSeq(list, 1, Len(list) - 1)), list[Len(list)])

\* the row-major memory of a matrix, as one sequence
RECURSIVE Flatten(_)
Flatten(M) == IF Len(M) = 0 THEN <<>> ELSE M[1] \o Flatten(Tail(M))

\* M[:, s:e] += D   (all other columns untouched)
AddIntoSlice(M, s, e, D) ==
    Tensor([i \in 1..Rows(M) |->
               [j \in 1..Cols(M) |->
                   IF s < j /\ j <= e THEN M[i][j] + D[i][j - s] ELSE M[i][j]]])

\* M * mask, mask a column vector (one factor per row)
MaskRows(M, mask) ==
    Tensor([i \in 1..Rows(M) |-> [j \in 1..Cols(M) |-> M[i][j] * mask[i]]])

\* the elements of a set of integers in ascending order
RECURSIVE SortedSeq(_)
SortedSeq(S) ==
    IF S = {} THEN <<>>
    ELSE LET m == CHOOSE x \in S : \A y \in S : x <= y
         IN <<m>> \o SortedSeq(S \ {m})

IsPrefix(s, t) == Len(s) <= Len(t) /\ SubSeq(t, 1, Len(s)) = s


(***************************************************************************)
(* State.                                                                  *)
(***************************************************************************)
VARIABLES
    process_group,  \* [size]: the group every rank of the model belongs to
    has_sgmv,       \* has_sgmv(): is the fused SGMV kernel available
    layer,          \* the layer object under test (the same on every rank)
    adapter_data,   \* AdapterBatchData: [meta, data] of the current batch
    input,          \* the forward's input: a matrix, or token ids (embedding)
    ranks,          \* per rank: the rank's position and local tensors
    flash_mistral,  \* the FlashMistral model object and what its methods returned
    rotary          \* the PositionRotaryEmbedding object, its cache, the warm-up flag

vars == <<process_group, has_sgmv, layer, adapter_data, input, ranks,
          flash_mistral, rotary>>

Ranks == 0..(process_group.size - 1)

\* no FlashMistral model and no rotary embedding: a layer is driven on its own
NoFlashMistral == [built |-> FALSE]

NoRotary == [built |-> FALSE]

\* in-features of the base weight; a row shard holds FeaturesPerRank of them
Hidden == process_group.size * FeaturesPerRank

(***************************************************************************)
(* The weight source: global (unsharded) tensors and their shards.         *)
(* weights.get_sharded / get_multi_weights_col / get_multi_weights_row     *)
(* and the LoRA weight sharding live outside layers.py.                    *)
(***************************************************************************)
\* t[:, rank*block : (rank+1)*block], block = width // world_size
ColShard(M, rk) ==
    LET block == Cols(M) \div process_group.size
    IN ColSlice(M, rk * block, (rk + 1) * block)

\* t[rank*block : (rank+1)*block, :], block = height // world_size
RowShard(M, rk) ==
    LET block == Rows(M) \div process_group.size
    IN RowSlice(M, rk * block, (rk + 1) * block)

\* global width of the output of layer name number n of the layer
OutWidth(n) ==
    IF layer.sizes = <<>> THEN process_group.size * OutPerRank ELSE layer.sizes[n]

\* the base projection of layer name n, as the matrix W.T of F.linear (in x out)
BaseWeightT(n) ==
    Tensor([h \in 1..Hidden |-> [o \in 1..OutWidth(n) |-> (h + 2 * o + n) % 4]])

\* global LoRA rank of adapter a in the batch's weights w
LoraRank(w, a) == process_group.size * w.rank_per[a]

\* adapter a's LoRA A for layer name n, oriented in x r
LoraA(w, n, a) ==
    Tensor([h \in 1..Hidden |-> [j \in 1..LoraRank(w, a) |-> 1 + a + ((h + j + n) % 2)]])

\* adapter a's LoRA B for layer name n, oriented r x out
LoraB(w, n, a) ==
    Tensor([j \in 1..LoraRank(w, a) |-> [o \in 1..OutWidth(n) |-> 1 + 2 * a + ((j + o) % 3)]])

(***************************************************************************)
(* Adapter batch data (built upstream of layers.py, read by it).           *)
(***************************************************************************)
\* the 0-based row offsets at which a new run of equal adapter ids starts
SegmentStarts(idx) ==
    SortedSeq({i - 1 : i \in {k \in 1..Len(idx) : k = 1 \/ idx[k] # idx[k - 1]}})

\* AdapterBatchMetadata of a batch whose row i uses adapter idx[i]
MetaOf(idx) ==
    LET starts == SegmentStarts(idx)
    IN [adapter_indices |-> idx,
        adapter_set |-> {idx[i] : i \in 1..Len(idx)},
        adapter_segments |-> starts \o <<Len(idx)>>,
        segment_indices |-> [k \in 1..Len(starts) |-> idx[starts[k] + 1]]]

\* the order in which `for adapter_index in adapter_set` visits the ids
AdapterOrder == SortedSeq(adapter_data.meta.adapter_set)

\* BatchLoraWeights.has_adapter
has_adapter(w, adapter_index) == adapter_index \in w.adapters

\* the segments (numbers k) whose adapter has weights of rank key r
BucketSegments(w, r) ==
    LET si == adapter_data.meta.segment_indices
    IN SortedSeq({k \in 1..Len(si) : si[k] \in w.adapters /\ w.rank_per[si[k]] = r})

\* the segments (numbers k) whose adapter has no weights for the layer
MissingSegments(w) ==
    LET si == adapter_data.meta.segment_indices
    IN SortedSeq({k \in 1..Len(si) : si[k] \notin w.adapters})

\* BatchLoraWeights.rank_data: one RankSegments per LoRA rank in use, each
\* with the segments of the adapters of that rank and their weight handles;
\* the segments of adapters without weights are in no bucket, or (null_ptr)
\* in a bucket of their own one of whose handles is None
RankData(w) ==
    LET keys == SortedSeq({w.rank_per[a] : a \in w.adapters \cap adapter_data.meta.adapter_set})
        live == [b \in 1..Len(keys) |->
                    [r |-> keys[b],
                     lora_a_ptr |-> "ptr",
                     lora_b_ptr |-> "ptr",
                     segments |-> BucketSegments(w, keys[b])]]
    IN IF w.null_ptr # "none" /\ MissingSegments(w) # <<>>
       THEN <<[r |-> 0,
               lora_a_ptr |-> IF w.null_ptr = "lora_a_ptr" THEN "None" ELSE "ptr",
               lora_b_ptr |-> IF w.null_ptr = "lora_b_ptr" THEN "None" ELSE "ptr",
               segments |-> MissingSegments(w)]>> \o live
       ELSE live

\* the adapter whose segment of bucket rs holds (1-based) row i, or -1
SegmentAdapter(rs, i) ==
    LET seg == adapter_data.meta.adapter_segments
        hit == {k \in {rs.segments[x] : x \in 1..Len(rs.segments)} :
                    seg[k] < i /\ i <= seg[k + 1]}
    IN IF hit = {} THEN -1
       ELSE adapter_data.meta.segment_indices[CHOOSE k \in hit : TRUE]

\* is the layer under test row-sharded (its input and LoRA A split on in-features)
RowSharded == layer.kind \in {"TensorParallelAdapterRowLinear", "TensorParallelRowLinear"}

\* the input tensor as rank rk receives it
LocalInput(rk) == IF RowSharded THEN ColShard(input, rk) ELSE input

\* data.lora_a[adapter_index][layer_id], oriented for the rank, on rank rk
LocalLoraA(rk, w, n, a) ==
    IF RowSharded THEN RowShard(LoraA(w, n, a), rk) ELSE ColShard(LoraA(w, n, a), rk)

\* data.lora_b[adapter_index][layer_id] on rank rk: a column shard
LocalLoraB(rk, w, n, a) == ColShard(LoraB(w, n, a), rk)

\* lora_a_sgmv_cutlass: per row of a segment, the row of X @ A of the segment's
\* adapter; rows outside the bucket's segments stay zero
lora_a_sgmv_cutlass(rk, w, n, rs) ==
    LET X == LocalInput(rk)
        a0 == adapter_data.meta.segment_indices[rs.segments[1]]
        width == Cols(LocalLoraA(rk, w, n, a0))
    IN Tensor([i \in 1..Rows(X) |->
                  LET a == SegmentAdapter(rs, i)
                  IN IF a = -1 THEN [j \in 1..width |-> 0]
                     ELSE MatMul(<<X[i]>>, LocalLoraA(rk, w, n, a))[1]])

\* lora_b_sgmv_cutlass: y[s:e] += v[s:e] @ B of the segment's adapter
lora_b_sgmv_cutlass(rk, w, n, rs, y, v) ==
    Tensor([i \in 1..Rows(y) |->
               LET a == SegmentAdapter(rs, i)
               IN IF a = -1 THEN y[i]
                  ELSE MatAdd(<<y[i]>>, MatMul(<<v[i]>>, LocalLoraB(rk, w, n, a)))[1]])

(***************************************************************************)
(* A rank's local state, and the collective calls it issues.               *)
(*   pc       where the rank continues ("done": forward has returned)      *)
(*   wait     the collective the rank is blocked in ("none": running)      *)
(*   calls    every collective call the rank has issued, in order          *)
(*   v, last  the collected X @ A last multiplied by B, and the loop pass  *)
(*            (layer name li, pass it, path) it belongs to                 *)
(***************************************************************************)
NewRank(pc0) ==
    [pc |-> pc0, result |-> <<>>, v |-> <<>>, proj |-> <<>>, alias |-> FALSE,
     fused |-> FALSE, li |-> 0, it |-> 0, offset |-> 0, start_idx |-> 0,
     end_idx |-> 0, calls |-> <<>>, wait |-> "none", group |-> "none",
     payload |-> <<>>, recv |-> <<>>, should_gather |-> FALSE,
     linear |-> "none", weight |-> "none", loaded |-> FALSE,
     bias |-> "unset", error |-> "none",
     written |-> {}, trace |-> <<>>, call |-> 1, first |-> <<>>,
     speculative_logits |-> <<>>, slices |-> <<>>,
     entry |-> [result |-> <<>>, proj |-> <<>>], frames |-> <<>>,
     last |-> [it |-> 0, li |-> 0, fused |-> FALSE]]

\* the rank calls collective `op` on `group` with tensor t and blocks in it;
\* when the collective returns the rank continues at `cont`
Issue(ls, op, group, t, cont) ==
    [ls EXCEPT !.wait = op, !.group = group, !.payload = t, !.pc = cont,
               !.calls = Append(@, [op |-> op, group |-> group])]

\* the rank writes tensor t in place (+=, an in-place collective, a kernel
\* writing its output argument)
Wrote(ls, t) == [ls EXCEPT !.written = @ \cup {t}]

\* the rank records a step of the LoRA pass it is in: the layer name and the
\* position in the loop over adapters or rank buckets
Log(ls, op) ==
    [ls EXCEPT !.trace = Append(@, [op |-> op, li |-> ls.li, it |-> ls.it])]

(***************************************************************************)
(* LoraLinear.forward_layer_type and forward_lora, on rank rk.             *)
(***************************************************************************)
\* data = adapter_data.data.get(layer_type); data = data.get(LORA): not None
LoraDataPresent(layer_type) ==
    /\ layer_type \in DOMAIN adapter_data.data
    /\ adapter_data.data[layer_type].has_lora

\* variant: only rank 0 sees a group larger than one
NeedsCollect_rank0(rk) == process_group.size > 1 /\ rk = 0

\* variant: collect_lora_a is called whatever the size of the group
NeedsCollect_always(rk) == TRUE

\* `if self.process_group.size() > 1` before collect_lora_a
NeedsCollect(rk) == process_group.size > 1

\* the layer type the rank is applying
LayerType(ls) == layer.layer_names[ls.li]

\* the finished call of forward_layer_type: its arguments, result and the
\* scratch as they were on entry, and result as it is returned
Frame(ls) ==
    [li |-> ls.li, start_idx |-> ls.start_idx, end_idx |-> ls.end_idx,
     fused |-> ls.fused, before |-> ls.entry.result, proj |-> ls.entry.proj,
     after |-> ls.result]

\* return from forward_layer_type to the forward that called it
ReturnFromLayerType(ls) ==
    LET rs == [ls EXCEPT !.frames = Append(@, Frame(ls))]
    IN IF layer.kind = "TensorParallelMultiAdapterLinear"
       THEN [rs EXCEPT !.li = @ + 1, !.pc = "names"]
       ELSE IF layer.head THEN [rs EXCEPT !.pc = "medusa"]
       ELSE [rs EXCEPT !.pc = "done"]

\* the fused path is taken
UseFused(layer_type) ==
    /\ has_sgmv
    /\ LoraDataPresent(layer_type)
    /\ adapter_data.data[layer_type].can_vectorize

\* entry of forward_layer_type: pick the path; the fused path accumulates
\* into a zeroed scratch of the slice's shape, or into result itself
forward_layer_type(rk, ls) ==
    LET fused == UseFused(LayerType(ls))
        whole == (ls.end_idx - ls.start_idx = Cols(ls.result))
        proj == IF fused /\ ~whole
                THEN Zeros(Rows(ls.result), ls.end_idx - ls.start_idx)
                ELSE <<>>
    IN [ls EXCEPT !.fused = fused,
                  !.alias = fused /\ whole,
                  !.proj = proj,
                  !.entry = [result |-> ls.result, proj |-> proj],
                  !.it = 1,
                  !.pc = "loop"]

\* TensorParallelMultiAdapterLinear.collect_lora_a: all-gather of a_out
\* (no group argument: the default group)
MultiAdapter_collect_lora_a(ls, a_out) ==
    Issue(ls, "all_gather", "WORLD", a_out, "collected")

\* variant: the gathered pieces concatenated in reverse rank order
MultiAdapter_collected_reversed(gathered_tensors) ==
    CatCols([i \in 1..Len(gathered_tensors) |->
                gathered_tensors[Len(gathered_tensors) + 1 - i]])

\* ... and its return value: torch.cat(gathered_tensors, dim=1)
MultiAdapter_collected(gathered_tensors) == CatCols(gathered_tensors)

\* variant: the rank keeps its partial a_out, no all-reduce
AdapterRow_collect_lora_a_local(ls, a_out) ==
    [ls EXCEPT !.recv = a_out, !.pc = "collected"]

\* TensorParallelAdapterRowLinear.collect_lora_a: in-place sum all-reduce
AdapterRow_collect_lora_a(ls, a_out) ==
    Issue(Wrote(ls, "a_out"), "all_reduce", "process_group", a_out, "collected")

\* ... and its return value: a_out, reduced in place
AdapterRow_collected(a_out) == a_out

\* self.collect_lora_a(a_out) of the layer under test
collect_lora_a(ls, a_out) ==
    IF layer.kind = "TensorParallelMultiAdapterLinear"
    THEN MultiAdapter_collect_lora_a(Log(ls, "collect_lora_a"), a_out)
    ELSE AdapterRow_collect_lora_a(Log(ls, "collect_lora_a"), a_out)

\* variant: a mask that selects every row
adapter_mask_ones(adapter_index) ==
    [i \in 1..Len(adapter_data.meta.adapter_indices) |-> 1]

\* adapter_mask = (adapter_indices == adapter_index).to(dtype).view(-1, 1)
adapter_mask(adapter_index) ==
    [i \in 1..Len(adapter_data.meta.adapter_indices) |->
        IF adapter_data.meta.adapter_indices[i] = adapter_index THEN 1 ELSE 0]

\* variant: the mask is multiplied into lora_b in place before the product
forward_lora_finish_inplace(rk, ls, a_out) ==
    LET w == adapter_data.data[LayerType(ls)]
        adapter_index == AdapterOrder[ls.it]
        layer_result == MaskRows(MatMul(a_out, LocalLoraB(rk, w, ls.li, adapter_index)),
                                 adapter_mask(adapter_index))
    IN [Wrote(Wrote(Log(ls, "expand"), "lora_b"), "result")
           EXCEPT !.v = a_out,
                  !.last = [it |-> ls.it, li |-> ls.li, fused |-> FALSE],
                  !.result = AddIntoSlice(@, ls.start_idx, ls.end_idx, layer_result),
                  !.it = @ + 1,
                  !.pc = "loop"]

\* forward_lora after collect_lora_a: (a_out @ lora_b) * adapter_mask, then
\* result[:, start_idx:end_idx] += layer_result
forward_lora_finish(rk, ls, a_out) ==
    LET w == adapter_data.data[LayerType(ls)]
        adapter_index == AdapterOrder[ls.it]
        layer_result == MaskRows(MatMul(a_out, LocalLoraB(rk, w, ls.li, adapter_index)),
                                 adapter_mask(adapter_index))
    IN [Wrote(Log(ls, "expand"), "result")
           EXCEPT !.v = a_out,
                  !.last = [it |-> ls.it, li |-> ls.li, fused |-> FALSE],
                  !.result = AddIntoSlice(@, ls.start_idx, ls.end_idx, layer_result),
                  !.it = @ + 1,
                  !.pc = "loop"]

\* variant: has_adapter is called on the entry without the `data is not None`
\* test, which raises when the layer type has no LoRA data
fallback_iteration_nocheck(rk, ls) ==
    IF ls.it > Len(AdapterOrder) THEN ReturnFromLayerType(ls)
    ELSE LET adapter_index == AdapterOrder[ls.it]
             lt == LayerType(ls)
         IN IF ~LoraDataPresent(lt) THEN [ls EXCEPT !.pc = "raised"]
            ELSE IF has_adapter(adapter_data.data[lt], adapter_index)
            THEN LET a_out == MatMul(LocalInput(rk),
                                     LocalLoraA(rk, adapter_data.data[lt], ls.li, adapter_index))
                     ws == Log(ls, "shrink")
                 IN IF NeedsCollect(rk) THEN collect_lora_a(ws, a_out)
                    ELSE forward_lora_finish(rk, ws, a_out)
            ELSE [ls EXCEPT !.it = @ + 1]

\* one pass of `for adapter_index in adapter_data.meta.adapter_set`
fallback_iteration(rk, ls) ==
    IF ls.it > Len(AdapterOrder) THEN ReturnFromLayerType(ls)
    ELSE LET adapter_index == AdapterOrder[ls.it]
             lt == LayerType(ls)
         IN IF LoraDataPresent(lt) /\ has_adapter(adapter_data.data[lt], adapter_index)
            THEN LET a_out == MatMul(LocalInput(rk),
                                     LocalLoraA(rk, adapter_data.data[lt], ls.li, adapter_index))
                     ws == Log(ls, "shrink")
                 IN IF NeedsCollect(rk) THEN collect_lora_a(ws, a_out)
                    ELSE forward_lora_finish(rk, ws, a_out)
            ELSE [ls EXCEPT !.it = @ + 1]

\* lora_b_sgmv_cutlass(proj, v, ...) of the current rank bucket
fused_expand(rk, ls, v) ==
    LET w == adapter_data.data[LayerType(ls)]
        rs == RankData(w)[ls.it]
        ws == Wrote(Log(ls, "expand"), "tmp_expand")
    IN IF ls.alias
       THEN [Wrote(ws, "result")
                EXCEPT !.v = v,
                       !.last = [it |-> ls.it, li |-> ls.li, fused |-> TRUE],
                       !.result = lora_b_sgmv_cutlass(rk, w, ls.li, rs, @, v),
                       !.it = @ + 1, !.pc = "loop"]
       ELSE [Wrote(ws, "proj")
                EXCEPT !.v = v,
                       !.last = [it |-> ls.it, li |-> ls.li, fused |-> TRUE],
                       !.proj = lora_b_sgmv_cutlass(rk, w, ls.li, rs, @, v),
                       !.it = @ + 1, !.pc = "loop"]

\* variant: the scratch is never added back to the slice
fused_exit_noadd(rk, ls) == ReturnFromLayerType(ls)

\* variant: the scratch is stored into the slice instead of added to it
fused_exit_overwrite(rk, ls) ==
    IF ls.end_idx - ls.start_idx # Cols(ls.result)
    THEN ReturnFromLayerType(
             [Wrote(ls, "result")
                 EXCEPT !.result =
                     Tensor([i \in 1..Rows(ls.result) |->
                                [j \in 1..Cols(ls.result) |->
                                    IF ls.start_idx < j /\ j <= ls.end_idx
                                    THEN ls.proj[i][j - ls.start_idx]
                                    ELSE ls.result[i][j]]])])
    ELSE ReturnFromLayerType(ls)

\* after the loop over the rank buckets: add the scratch back to the slice
fused_exit(rk, ls) ==
    IF ls.end_idx - ls.start_idx # Cols(ls.result)
    THEN ReturnFromLayerType(
             [Wrote(ls, "result")
                 EXCEPT !.result = AddIntoSlice(@, ls.start_idx, ls.end_idx, ls.proj)])
    ELSE ReturnFromLayerType(ls)

\* variant: only lora_a_ptr is tested; the shrink kernel is then launched on
\* a bucket whose lora_b_ptr is None and the expand fails on the handle
fused_iteration_a_only(rk, ls) ==
    LET w == adapter_data.data[LayerType(ls)]
    IN IF ls.it > Len(RankData(w)) THEN fused_exit(rk, ls)
       ELSE LET rs == RankData(w)[ls.it]
            IN IF rs.lora_a_ptr # "None"
               THEN IF rs.lora_b_ptr = "None"
                    THEN [Wrote(Log(ls, "shrink"), "tmp_shrink")
                             EXCEPT !.pc = "raised", !.error = "RuntimeError"]
                    ELSE LET v == lora_a_sgmv_cutlass(rk, w, ls.li, rs)
                             ws == Wrote(Log(ls, "shrink"), "tmp_shrink")
                         IN IF NeedsCollect(rk) THEN collect_lora_a(ws, v)
                            ELSE fused_expand(rk, ws, v)
               ELSE [ls EXCEPT !.it = @ + 1]

\* one pass of `for r, rank_segments in data.rank_data.items()`
fused_iteration(rk, ls) ==
    LET w == adapter_data.data[LayerType(ls)]
    IN IF ls.it > Len(RankData(w)) THEN fused_exit(rk, ls)
       ELSE LET rs == RankData(w)[ls.it]
            IN IF rs.lora_a_ptr # "None" /\ rs.lora_b_ptr # "None"
               THEN LET v == lora_a_sgmv_cutlass(rk, w, ls.li, rs)
                        ws == Wrote(Log(ls, "shrink"), "tmp_shrink")
                    IN IF NeedsCollect(rk) THEN collect_lora_a(ws, v)
                       ELSE fused_expand(rk, ws, v)
               ELSE [ls EXCEPT !.it = @ + 1]

\* the rank continues after collect_lora_a has returned
after_collect(rk, ls) ==
    LET a_out == IF layer.kind = "TensorParallelMultiAdapterLinear"
                 THEN MultiAdapter_collected(ls.recv)
                 ELSE AdapterRow_collected(ls.recv)
    IN IF ls.fused THEN fused_expand(rk, ls, a_out)
       ELSE forward_lora_finish(rk, ls, a_out)

(***************************************************************************)
(* TensorParallelMultiAdapterLinear.forward (2-D inputs).                  *)
(***************************************************************************)
\* self.base_layer(input): a column-parallel linear over the packed layer
\* names; the rank holds a column shard of each name's projection
ColumnLinear_forward(rk) ==
    CatCols([n \in 1..Len(layer.layer_names) |->
                MatMul(input, ColShard(BaseWeightT(n), rk))])

\* variant: the base layer hands back the output tensor of the previous call
\* with the same input, which that call's LoRA pass has modified in place
MultiAdapterLinear_begin_cached(rk, ls) ==
    [ls EXCEPT !.result = IF ls.first = <<>> THEN ColumnLinear_forward(rk)
                          ELSE ls.first,
               !.offset = 0, !.li = 1, !.pc = "names"]

\* result = self.base_layer(input); offset = 0
MultiAdapterLinear_begin(rk, ls) ==
    [ls EXCEPT !.result = ColumnLinear_forward(rk), !.offset = 0, !.li = 1,
               !.pc = "names"]

\* variant: offset is never advanced, every slice starts at column 0
MultiAdapterLinear_next_nooffset(rk, ls) ==
    IF ls.li > Len(layer.layer_names) THEN [ls EXCEPT !.pc = "done"]
    ELSE LET start_idx == ls.offset \div process_group.size
             end_idx == IF layer.sizes # <<>>
                        THEN layer.sizes[ls.li] \div process_group.size
                        ELSE Cols(ls.result)
         IN [ls EXCEPT !.start_idx = start_idx, !.end_idx = end_idx,
                       !.slices = Append(@, <<start_idx, end_idx>>),
                       !.pc = "layer_type"]

\* one pass of `for i, layer_name in enumerate(self.layer_names)` up to the
\* call of forward_layer_type; past the last name, return result
MultiAdapterLinear_next(rk, ls) ==
    IF ls.li > Len(layer.layer_names) THEN [ls EXCEPT !.pc = "done"]
    ELSE LET start_idx == ls.offset \div process_group.size
             offset == IF layer.sizes # <<>> THEN ls.offset + layer.sizes[ls.li]
                       ELSE ls.offset
             end_idx == IF layer.sizes # <<>> THEN offset \div process_group.size
                        ELSE Cols(ls.result)
         IN [ls EXCEPT !.start_idx = start_idx, !.end_idx = end_idx,
                       !.slices = Append(@, <<start_idx, end_idx>>),
                       !.offset = offset, !.pc = "layer_type"]

\* get_linear: the class of the layer it returns.  The first branch of the
\* chain is `if True:`, so no later branch is ever reached.
get_linear(quantize) ==
    IF TRUE THEN "Fp8Linear"
    ELSE IF quantize = "None" THEN "FastLinear"
    ELSE IF quantize = "bitsandbytes" THEN "Linear8bitLt"
    ELSE IF quantize \in {"bitsandbytes-nf4", "bitsandbytes-fp4"} THEN "Linear4bit"
    ELSE IF quantize = "eetq" THEN "EETQLinear"
    ELSE IF quantize = "gptq" THEN "QuantLinear"
    ELSE IF quantize = "awq" THEN "AWQLinear"
    ELSE IF quantize \in {"hqq-4bit", "hqq-3bit", "hqq-2bit"} THEN "HQQLinearLayer"
    ELSE "NotImplementedError"

\* variant: with bias requested the bias is loaded and the layer returned
TensorParallelColumnLinear_load_qkv_bias(rk, ls) ==
    IF ~layer.packed THEN [ls EXCEPT !.pc = "raised", !.error = "WeightsError"]
    ELSE LET linear == get_linear(layer.quantize)
         IN IF linear = "NotImplementedError"
            THEN [ls EXCEPT !.pc = "raised", !.error = "NotImplementedError"]
            ELSE [ls EXCEPT !.linear = linear, !.weight = "packed_qkv",
                            !.bias = IF layer.bias THEN "tensor" ELSE "None",
                            !.loaded = TRUE, !.pc = "constructed"]

\* TensorParallelColumnLinear.load_qkv on rank rk: the packed weight is
\* fetched first (a source without it fails there), then bias is refused
TensorParallelColumnLinear_load_qkv(rk, ls) ==
    IF ~layer.packed THEN [ls EXCEPT !.pc = "raised", !.error = "WeightsError"]
    ELSE IF layer.bias
    THEN [ls EXCEPT !.pc = "raised", !.error = "NotImplementedError"]
    ELSE LET linear == get_linear(layer.quantize)
         IN IF linear = "NotImplementedError"
            THEN [ls EXCEPT !.pc = "raised", !.error = "NotImplementedError"]
            ELSE [ls EXCEPT !.linear = linear, !.weight = "packed_qkv",
                            !.bias = "None", !.loaded = TRUE,
                            !.pc = "constructed"]

(***************************************************************************)
(* TensorParallelRowLinear and TensorParallelAdapterRowLinear.             *)
(***************************************************************************)
\* the bias tensor of the row-parallel projection
BiasVector == [o \in 1..OutWidth(1) |-> o]

\* variant: every rank loads the bias
RowLinear_bias_allranks(rk) ==
    IF layer.bias THEN BiasVector ELSE [o \in 1..OutWidth(1) |-> 0]

\* TensorParallelRowLinear.load: the bias is loaded on the first rank only
RowLinear_bias(rk) ==
    IF layer.bias /\ rk = 0 THEN BiasVector ELSE [o \in 1..OutWidth(1) |-> 0]

\* super().forward(input): the partial product over the rank's in-features
RowLinear_local(rk) ==
    LET out == MatMul(LocalInput(rk), RowShard(BaseWeightT(1), rk))
    IN [i \in 1..Rows(out) |-> [o \in 1..Cols(out) |-> out[i][o] + RowLinear_bias(rk)[o]]]

\* variant: the all_reduce flag is ignored
RowLinear_reduces_always == process_group.size > 1

\* TensorParallelRowLinear.forward does all-reduce its output
RowLinear_reduces == process_group.size > 1 /\ layer.all_reduce

\* TensorParallelAdapterRowLinear.forward after result = self.base_layer(input):
\* the rank's column slice, then forward_layer_type
AdapterRow_slice(rk, ls) ==
    LET stride == Cols(ls.result) \div process_group.size
    IN [ls EXCEPT !.start_idx = rk * stride, !.end_idx = (rk + 1) * stride,
                  !.li = 1, !.pc = "layer_type"]

\* TensorParallelRowLinear.forward returns out
RowLinear_return(rk, ls, out) ==
    IF layer.kind = "TensorParallelAdapterRowLinear"
    THEN AdapterRow_slice(rk, [ls EXCEPT !.result = out])
    ELSE [ls EXCEPT !.result = out, !.pc = "done"]

\* TensorParallelRowLinear.load on rank rk: the wrapper get_linear returns
\* for config.quantize around the row shard (and the bias on rank 0)
TensorParallelRowLinear_load(rk, ls) ==
    LET linear == get_linear(layer.quantize)
    IN IF linear = "NotImplementedError"
       THEN [ls EXCEPT !.pc = "raised", !.error = "NotImplementedError"]
       ELSE [ls EXCEPT !.linear = linear, !.weight = "sharded", !.loaded = TRUE,
                       !.bias = IF layer.bias /\ rk = 0 THEN "tensor" ELSE "None",
                       !.pc = "forward"]

\* TensorParallelRowLinear.forward
RowLinear_forward(rk, ls) ==
    IF RowLinear_reduces
    THEN Issue(ls, "all_reduce", "process_group", RowLinear_local(rk), "reduced")
    ELSE RowLinear_return(rk, ls, RowLinear_local(rk))

(***************************************************************************)
(* MultiAdapterHead: the row-sharded adapter-aware layer of the output     *)
(* head, with the speculative logits of a MEDUSA adapter.                  *)
(***************************************************************************)
\* data.default_medusa.model(input): the speculative head of adapter m on
\* the rows X, one output row per input row
MedusaModel(m, X) ==
    Tensor([i \in 1..Rows(X) |-> [c \in 1..Cols(X) |-> (m + 2) * X[i][c] + c]])

\* a layer type's entry that holds no MEDUSA weights
NoMedusa ==
    [present |-> FALSE, has_default |-> FALSE, default_medusa |-> 0,
     adapters |-> {}]

\* data = adapter_data.data.get(self.layer_name); data.get(MEDUSA)
MedusaData ==
    IF layer.layer_names[1] \in DOMAIN adapter_data.data
    THEN adapter_data.data[layer.layer_names[1]].medusa
    ELSE NoMedusa

\* variant: the default head is applied under the mask of its own adapter
MultiAdapterHead_forward_masked(rk, ls) ==
    [ls EXCEPT !.speculative_logits =
                   IF MedusaData.present /\ MedusaData.has_default
                   THEN MaskRows(MedusaModel(MedusaData.default_medusa, LocalInput(rk)),
                                 adapter_mask(MedusaData.default_medusa))
                   ELSE <<>>,
               !.pc = "done"]

\* MultiAdapterHead.forward after super().forward(input, adapter_data) has
\* returned: speculative_logits is None (<<>>) or the default head's output
MultiAdapterHead_forward(rk, ls) ==
    [ls EXCEPT !.speculative_logits =
                   IF MedusaData.present /\ MedusaData.has_default
                   THEN MedusaModel(MedusaData.default_medusa, LocalInput(rk))
                   ELSE <<>>,
               !.pc = "done"]

(***************************************************************************)
(* TensorParallelEmbedding.                                                *)
(***************************************************************************)
Min(a, b) == IF a < b THEN a ELSE b

\* row `id` of the full embedding table (no entry is zero)
EmbeddingRow(id) == [c \in 1..EmbedDim |-> 1 + id * EmbedDim + c]

block_size == layer.num_embeddings \div process_group.size

min_id(rk) == rk * block_size

max_id(rk) == Min(layer.num_embeddings, (rk + 1) * block_size)

null_idx == block_size

\* weights.get_partial_sharded(dim=0) of the rank, padded with one zero row
Embedding_weight(rk) ==
    [k \in 1..block_size |-> EmbeddingRow(rk * block_size + k - 1)]
        \o <<[c \in 1..EmbedDim |-> 0]>>

\* torch.where((min_id > input) | (input >= max_id), null_idx, input - min_id)
Embedding_index(rk, id) ==
    IF min_id(rk) > id \/ id >= max_id(rk) THEN null_idx ELSE id - min_id(rk)

\* torch.nn.functional.embedding(input, self.weight)
Embedding_lookup(rk) ==
    [i \in 1..Len(input) |-> Embedding_weight(rk)[Embedding_index(rk, input[i]) + 1]]

\* TensorParallelEmbedding.forward
Embedding_forward(rk, ls) ==
    IF layer.reduce /\ process_group.size > 1
    THEN Issue(ls, "all_reduce", "process_group", Embedding_lookup(rk), "emb_reduced")
    ELSE [ls EXCEPT !.result = Embedding_lookup(rk), !.pc = "done"]

(***************************************************************************)
(* get_linear and TensorParallelHead.                                      *)
(***************************************************************************)
\* the head's full weight, as the matrix W.T (in x vocabulary)
HeadWeightT ==
    [h \in 1..Hidden |-> [o \in 1..layer.num_embeddings |-> 1 + ((h * o + o) % 5)]]

\* weights.get_sharded(dim=0) asserts that the size divides evenly
get_sharded_ok == layer.num_embeddings % process_group.size = 0

\* variant: should_gather is left True when the sharded load failed
TensorParallelHead_load_gather(rk, ls) ==
    LET sharded == process_group.size > 1 /\ get_sharded_ok
        quantize == IF layer.quantize \in {"gptq", "awq", "eetq"} THEN "None"
                    ELSE layer.quantize
        linear == get_linear(quantize)
    IN IF linear = "NotImplementedError"
       THEN [ls EXCEPT !.pc = "raised", !.error = "NotImplementedError"]
       ELSE [ls EXCEPT !.weight = IF sharded THEN "sharded" ELSE "full",
                       !.should_gather = process_group.size > 1,
                       !.linear = linear,
                       !.loaded = TRUE,
                       !.pc = "forward"]

\* TensorParallelHead.load on rank rk
TensorParallelHead_load(rk, ls) ==
    LET sharded == process_group.size > 1 /\ get_sharded_ok
        quantize == IF layer.quantize \in {"gptq", "awq", "eetq"} THEN "None"
                    ELSE layer.quantize
        linear == get_linear(quantize)
    IN IF linear = "NotImplementedError"
       THEN [ls EXCEPT !.pc = "raised", !.error = "NotImplementedError"]
       ELSE [ls EXCEPT !.weight = IF sharded THEN "sharded" ELSE "full",
                       !.should_gather = sharded,
                       !.linear = linear,
                       !.loaded = TRUE,
                       !.pc = "forward"]

\* self.linear.weight.T on rank rk
Head_weightT(rk, ls) ==
    IF ls.weight = "sharded" THEN ColShard(HeadWeightT, rk) ELSE HeadWeightT

\* TensorParallelHead.forward up to its collective call or return
TensorParallelHead_forward(rk, ls) ==
    LET local_out == MatMul(input, Head_weightT(rk, ls))
    IN IF ls.should_gather /\ ls.linear = "FastLinear" /\ Rows(input) = 1
       THEN Issue(ls, "all_gather_into_tensor", "process_group", local_out, "head_fast")
       ELSE IF ~ls.should_gather
            THEN [ls EXCEPT !.result = local_out, !.pc = "done"]
            ELSE Issue(ls, "all_gather", "process_group", local_out, "head_gathered")

\* fast branch: world_out, the (1, out_dim * world_size) buffer the gather filled
Head_fast_return(ls) == [ls EXCEPT !.result = <<ls.recv>>, !.pc = "done"]

\* variant: only the first gathered piece is returned
Head_gathered_return_first(ls) == [ls EXCEPT !.result = ls.recv[1], !.pc = "done"]

\* general branch: torch.cat(world_output, dim=-1)
Head_gathered_return(ls) == [ls EXCEPT !.result = CatCols(ls.recv), !.pc = "done"]

(***************************************************************************)
(* A rank runs its forward until it blocks in a collective or returns.     *)
(***************************************************************************)
Step(rk, ls) ==
    CASE ls.pc = "names" -> MultiAdapterLinear_next(rk, ls)
      [] ls.pc = "layer_type" -> forward_layer_type(rk, ls)
      [] ls.pc = "loop" -> IF ls.fused THEN fused_iteration(rk, ls)
                           ELSE fallback_iteration(rk, ls)
      [] ls.pc = "collected" -> after_collect(rk, ls)
      [] ls.pc = "reduced" -> RowLinear_return(rk, ls, ls.recv)
      [] ls.pc = "medusa" -> MultiAdapterHead_forward(rk, ls)
      [] ls.pc = "emb_reduced" -> [ls EXCEPT !.result = ls.recv, !.pc = "done"]
      [] ls.pc = "head_fast" -> Head_fast_return(ls)
      [] ls.pc = "head_gathered" -> Head_gathered_return(ls)

RECURSIVE Run(_, _)
Run(rk, ls) ==
    IF ls.pc \in {"done", "raised"} \/ ls.wait # "none" THEN ls
    ELSE Run(rk, Step(rk, ls))

CanCall(rk, kind) ==
    /\ layer.kind = kind
    /\ ranks[rk].pc = "forward"
    /\ ranks[rk].wait = "none"

(***************************************************************************)
(* Actions of a rank.                                                      *)
(***************************************************************************)
MultiAdapterLinear_forward(rk) ==
    /\ CanCall(rk, "TensorParallelMultiAdapterLinear")
    /\ ranks' = [ranks EXCEPT ![rk] = Run(rk, MultiAdapterLinear_begin(rk, @))]
    /\ UNCHANGED <<process_group, has_sgmv, layer, adapter_data, input, flash_mistral, rotary>>

AdapterRowLinear_forward(rk) ==
    /\ CanCall(rk, "TensorParallelAdapterRowLinear")
    /\ ranks' = [ranks EXCEPT ![rk] = Run(rk, RowLinear_forward(rk, @))]
    /\ UNCHANGED <<process_group, has_sgmv, layer, adapter_data, input, flash_mistral, rotary>>

RowLinear_call(rk) ==
    /\ CanCall(rk, "TensorParallelRowLinear")
    /\ ranks' = [ranks EXCEPT ![rk] = Run(rk, RowLinear_forward(rk, @))]
    /\ UNCHANGED <<process_group, has_sgmv, layer, adapter_data, input, flash_mistral, rotary>>

ColumnLinear_load_qkv(rk) ==
    /\ layer.kind = "TensorParallelColumnLinear"
    /\ ranks[rk].pc = "load"
    /\ ranks' = [ranks EXCEPT ![rk] = TensorParallelColumnLinear_load_qkv(rk, @)]
    /\ UNCHANGED <<process_group, has_sgmv, layer, adapter_data, input, flash_mistral, rotary>>

RowLinear_load(rk) ==
    /\ layer.kind = "TensorParallelRowLinear"
    /\ ranks[rk].pc = "load"
    /\ ranks' = [ranks EXCEPT ![rk] = TensorParallelRowLinear_load(rk, @)]
    /\ UNCHANGED <<process_group, has_sgmv, layer, adapter_data, input, flash_mistral, rotary>>

Embedding_call(rk) ==
    /\ CanCall(rk, "TensorParallelEmbedding")
    /\ ranks' = [ranks EXCEPT ![rk] = Run(rk, Embedding_forward(rk, @))]
    /\ UNCHANGED <<process_group, has_sgmv, layer, adapter_data, input, flash_mistral, rotary>>

Head_load(rk) ==
    /\ layer.kind = "TensorParallelHead"
    /\ ranks[rk].pc = "load"
    /\ ranks' = [ranks EXCEPT ![rk] = TensorParallelHead_load(rk, @)]
    /\ UNCHANGED <<process_group, has_sgmv, layer, adapter_data, input, flash_mistral, rotary>>

Head_call(rk) ==
    /\ CanCall(rk, "TensorParallelHead")
    /\ ranks' = [ranks EXCEPT ![rk] = Run(rk, TensorParallelHead_forward(rk, @))]
    /\ UNCHANGED <<process_group, has_sgmv, layer, adapter_data, input, flash_mistral, rotary>>

\* the collective the rank was blocked in has returned: the rank goes on
Resume(rk) ==
    /\ ranks[rk].pc \notin {"load", "constructed", "forward", "done", "raised"}
    /\ ranks[rk].wait = "none"
    /\ ranks' = [ranks EXCEPT ![rk] = Run(rk, @)]
    /\ UNCHANGED <<process_group, has_sgmv, layer, adapter_data, input, flash_mistral, rotary>>

\* the caller invokes the adapter-aware forward again on the same layer with
\* the same input and adapter_data: the locals of the call are new, the
\* record of what the rank has written in place and the output of the
\* previous call are kept
CallAgain(rk) ==
    /\ layer.kind \in {"TensorParallelMultiAdapterLinear",
                       "TensorParallelAdapterRowLinear"}
    /\ ranks[rk].pc = "done"
    /\ ranks[rk].call < MaxCalls
    /\ ranks' = [ranks EXCEPT ![rk] =
                    [NewRank("forward") EXCEPT !.call = ranks[rk].call + 1,
                                               !.first = ranks[rk].result,
                                               !.written = ranks[rk].written]]
    /\ UNCHANGED <<process_group, has_sgmv, layer, adapter_data, input, flash_mistral, rotary>>

(***************************************************************************)
(* Collectives of torch.distributed: each completes once every rank of the *)
(* group is blocked in the same call.                                      *)
(***************************************************************************)
AllIn(op) ==
    /\ \A rk \in Ranks : ranks[rk].wait = op
    /\ \A rk \in Ranks : ranks[rk].group = ranks[0].group
    /\ \A rk \in Ranks : Rows(ranks[rk].payload) = Rows(ranks[0].payload)
                         /\ Cols(ranks[rk].payload) = Cols(ranks[0].payload)

Payloads == [k \in 1..process_group.size |-> ranks[k - 1].payload]

Deliver(value) ==
    /\ ranks' = [rk \in Ranks |->
                    [ranks[rk] EXCEPT !.wait = "none", !.group = "none",
                                      !.payload = <<>>, !.recv = value]]
    /\ UNCHANGED <<process_group, has_sgmv, layer, adapter_data, input, flash_mistral, rotary>>

\* all_reduce(t): t becomes the element-wise sum over the ranks
AllReduce == AllIn("all_reduce") /\ Deliver(SumAll(Payloads))

\* all_gather(list, t): list[k] becomes rank k's t
AllGather == AllIn("all_gather") /\ Deliver(Payloads)

\* all_gather_into_tensor(out, t): out's memory becomes the ranks' t, in rank order
RECURSIVE FlatCat(_)
FlatCat(list) ==
    IF Len(list) = 0 THEN <<>> ELSE Flatten(list[1]) \o FlatCat(Tail(list))

AllGatherIntoTensor == AllIn("all_gather_into_tensor") /\ Deliver(FlatCat(Payloads))

(***************************************************************************)
(* Initial states: a constructed layer on a process group, and one batch.  *)
(***************************************************************************)
LayerRec(kind, names, sizes, all_reduce, bias, num_embeddings, reduce, quantize) ==
    [kind |-> kind, layer_names |-> names, sizes |-> sizes,
     all_reduce |-> all_reduce, bias |-> bias,
     num_embeddings |-> num_embeddings, reduce |-> reduce, quantize |-> quantize,
     packed |-> TRUE, head |-> FALSE]

\* the BatchMedusaWeights a batch can carry for the head: speculative heads
\* for the batch's adapters, one of them the default or none
MedusaChoices(meta) ==
    {NoMedusa} \cup
    {[present |-> TRUE, has_default |-> TRUE, default_medusa |-> d,
      adapters |-> meta.adapter_set] : d \in meta.adapter_set}
    \cup {[present |-> TRUE, has_default |-> FALSE, default_medusa |-> 0,
           adapters |-> meta.adapter_set]}

\* a layer type's entry that holds no LORA weights
NoLoraEntry ==
    [has_lora |-> FALSE, adapters |-> {}, rank_per |-> [a \in AdapterIds |-> 1],
     can_vectorize |-> FALSE, medusa |-> NoMedusa, null_ptr |-> "none"]

\* the BatchLoraWeights a batch can carry for a layer type: weights for some
\* of the batch's adapters; adapter 0 has rank 1 per shard, the others r1;
\* a vectorizable batch may hold the adapters without weights in a rank
\* bucket with a None handle
LoraEntries(meta) ==
    {e \in {[has_lora |-> TRUE, adapters |-> A,
             rank_per |-> [a \in AdapterIds |-> IF a = 0 THEN 1 ELSE r1],
             can_vectorize |-> cv, medusa |-> NoMedusa, null_ptr |-> np] :
               A \in (SUBSET meta.adapter_set) \ {{}}, r1 \in {1, 2},
               cv \in BOOLEAN, np \in {"none", "lora_a_ptr", "lora_b_ptr"}} :
        /\ e.null_ptr = "none" \/ (e.can_vectorize /\ e.adapters # meta.adapter_set)
        \* the rank of an adapter without weights is not part of the data
        /\ \A a \in AdapterIds \ e.adapters : e.rank_per[a] = 1}

\* adapter_data.data: per layer type no entry, an entry without LORA, or
\* the batch's LoRA weights; of the names of a packed layer the first has an
\* entry (with or without LORA) and the later ones LoRA weights or no entry,
\* all with a handle for every rank bucket
DataChoices(names, meta) ==
    LET nameSet == {names[k] : k \in 1..Len(names)}
        entries == {e \in LoraEntries(meta) : Len(names) > 1 => e.null_ptr = "none"}
        states == {st \in [nameSet -> {"none", "nolora", "lora"}] :
                      Len(names) > 1 =>
                          /\ st[names[1]] # "none"
                          /\ \A k \in 2..Len(names) : st[names[k]] # "nolora"}
    IN {[n \in {x \in nameSet : st[x] # "none"} |->
            IF st[n] = "lora" THEN e ELSE NoLoraEntry] :
          st \in states, e \in entries}

NoAdapterData == [meta |-> MetaOf(<<>>), data |-> <<>>]

InitAdapterLayer(W, kind, names, sizes, all_reduce) ==
    /\ layer = LayerRec(kind, names, sizes, all_reduce, FALSE, 0, FALSE, "None")
    /\ has_sgmv \in BOOLEAN
    /\ \E idx \in [1..MaxRows -> AdapterIds] :
          \E d \in DataChoices(names, MetaOf(idx)) :
              \* can_vectorize is only ever called when has_sgmv() holds
              /\ has_sgmv \/ \A n \in DOMAIN d : /\ d[n].can_vectorize = d[n].has_lora
                                                  /\ d[n].null_ptr = "none"
              /\ adapter_data = [meta |-> MetaOf(idx), data |-> d]
    /\ input = [i \in 1..MaxRows |->
                   [h \in 1..(W * FeaturesPerRank) |-> 1 + ((i + 2 * h) % 3)]]
    /\ ranks = [rk \in 0..(W - 1) |-> NewRank("forward")]

\* sizes of two packed layer names at least one of which is not the
\* OutPerRank columns per rank of an evenly sharded projection
UnevenSizes(W) ==
    {<<W * OutPerRank + a, W * OutPerRank + b>> : a, b \in 0..1} \
        {<<W * OutPerRank, W * OutPerRank>>}

\* a packed layer constructed with sizes of its own, called on a batch
\* without LoRA data
InitUnevenSizes(W) ==
    /\ \E sizes \in UnevenSizes(W) :
          layer = LayerRec("TensorParallelMultiAdapterLinear",
                           <<"gate_proj", "up_proj">>, sizes, FALSE, FALSE, 0,
                           FALSE, "None")
    /\ has_sgmv = FALSE
    /\ adapter_data = [meta |-> MetaOf([i \in 1..MaxRows |-> 0]),
                       data |-> [n \in {} |-> NoLoraEntry]]
    /\ input = [i \in 1..MaxRows |->
                   [h \in 1..(W * FeaturesPerRank) |-> 1 + ((i + 2 * h) % 3)]]
    /\ ranks = [rk \in 0..(W - 1) |-> NewRank("forward")]

InitMultiAdapterLinear(W) ==
    \/ InitAdapterLayer(W, "TensorParallelMultiAdapterLinear", <<"q_proj">>, <<>>, FALSE)
    \/ InitAdapterLayer(W, "TensorParallelMultiAdapterLinear",
                        <<"gate_proj", "up_proj">>,
                        <<W * OutPerRank, W * OutPerRank>>, FALSE)
    \/ InitUnevenSizes(W)

InitAdapterRowLinear(W) ==
    \E all_reduce \in BOOLEAN :
        InitAdapterLayer(W, "TensorParallelAdapterRowLinear", <<"o_proj">>, <<>>,
                         all_reduce)

\* the output head: a row-sharded adapter-aware layer named lm_head, on a
\* batch that carries LoRA weights for all of its adapters or for none, and
\* MEDUSA weights or none
InitMultiAdapterHead(W) ==
    /\ layer = [LayerRec("TensorParallelAdapterRowLinear", <<"lm_head">>, <<>>,
                         TRUE, FALSE, 0, FALSE, "None") EXCEPT !.head = TRUE]
    /\ has_sgmv \in BOOLEAN
    /\ \E idx \in [1..MaxRows -> AdapterIds] :
          \E lora \in {NoLoraEntry} \cup
                      {e \in LoraEntries(MetaOf(idx)) :
                          /\ e.adapters = MetaOf(idx).adapter_set
                          /\ \A a \in AdapterIds : e.rank_per[a] = 1
                          /\ e.can_vectorize = has_sgmv},
             m \in MedusaChoices(MetaOf(idx)), present \in BOOLEAN :
              adapter_data =
                  [meta |-> MetaOf(idx),
                   data |-> IF present
                            THEN [n \in {"lm_head"} |-> [lora EXCEPT !.medusa = m]]
                            ELSE [n \in {} |-> NoLoraEntry]]
    /\ input = [i \in 1..MaxRows |->
                   [h \in 1..(W * FeaturesPerRank) |-> 1 + ((i + 2 * h) % 3)]]
    /\ ranks = [rk \in 0..(W - 1) |-> NewRank("forward")]

\* the values of config.quantize a layer is loaded with; "None" is None and
\* "unknown" stands for every value get_linear has no branch for
QuantizeValues ==
    {"None", "bitsandbytes", "bitsandbytes-nf4", "bitsandbytes-fp4", "eetq",
     "hqq-4bit", "unknown"}

InitRowLinear(W) ==
    /\ \E all_reduce \in BOOLEAN, bias \in BOOLEAN, q \in QuantizeValues :
          layer = LayerRec("TensorParallelRowLinear", <<"down_proj">>, <<>>,
                           all_reduce, bias, 0, FALSE, q)
    /\ has_sgmv = FALSE
    /\ adapter_data = NoAdapterData
    /\ \E rows \in 1..MaxRows :
          input = [i \in 1..rows |->
                      [h \in 1..(W * FeaturesPerRank) |-> 1 + ((i + 2 * h) % 3)]]
    /\ ranks = [rk \in 0..(W - 1) |-> NewRank("load")]

\* a packed-QKV column-parallel layer still to be loaded, from a weight
\* source that holds the packed tensor or does not
InitColumnLinear(W) ==
    /\ \E bias \in BOOLEAN, q \in QuantizeValues, packed \in BOOLEAN :
          layer = [LayerRec("TensorParallelColumnLinear", <<"query_key_value">>,
                            <<>>, FALSE, bias, 0, FALSE, q)
                       EXCEPT !.packed = packed]
    /\ has_sgmv = FALSE
    /\ adapter_data = NoAdapterData
    /\ input = <<>>
    /\ ranks = [rk \in 0..(W - 1) |-> NewRank("load")]

InitEmbedding(W) ==
    /\ \E n \in 1..MaxVocab, reduce \in BOOLEAN :
          layer = LayerRec("TensorParallelEmbedding", <<>>, <<>>, FALSE, FALSE,
                           n, reduce, "None")
    /\ has_sgmv = FALSE
    /\ adapter_data = NoAdapterData
    /\ \E id \in 0..(layer.num_embeddings - 1) : input = <<id>>
    /\ ranks = [rk \in 0..(W - 1) |-> NewRank("forward")]

\* a head still to be loaded, or one constructed around a FastLinear
InitHead(W) ==
    /\ \E n \in 1..MaxVocab, q \in {"None", "eetq", "bitsandbytes"} :
          layer = LayerRec("TensorParallelHead", <<"lm_head">>, <<>>, FALSE, FALSE,
                           n, FALSE, q)
    /\ has_sgmv = FALSE
    /\ adapter_data = NoAdapterData
    /\ \E rows \in {1, 2} :
          input = [i \in 1..rows |->
                      [h \in 1..(W * FeaturesPerRank) |-> 1 + ((i + 2 * h) % 3)]]
    /\ \/ ranks = [rk \in 0..(W - 1) |-> NewRank("load")]
       \/ \E should_gather \in BOOLEAN :
             /\ should_gather => layer.num_embeddings % W = 0
             /\ layer.quantize = "None"
             /\ ranks = [rk \in 0..(W - 1) |->
                            [NewRank("forward") EXCEPT
                                !.should_gather = should_gather,
                                !.linear = "FastLinear",
                                !.weight = IF should_gather THEN "sharded" ELSE "full"]]

Init ==
    \E W \in 1..MaxWorld :
        /\ process_group = [size |-> W]
        /\ \/ InitMultiAdapterLinear(W)
           \/ InitAdapterRowLinear(W)
           \/ InitMultiAdapterHead(W)
           \/ InitColumnLinear(W)
           \/ InitRowLinear(W)
           \/ InitEmbedding(W)
           \/ InitHead(W)
        /\ flash_mistral = NoFlashMistral
        /\ rotary = NoRotary

Next ==
    \/ \E rk \in Ranks : MultiAdapterLinear_forward(rk)
    \/ \E rk \in Ranks : AdapterRowLinear_forward(rk)
    \/ \E rk \in Ranks : ColumnLinear_load_qkv(rk)
    \/ \E rk \in Ranks : RowLinear_load(rk)
    \/ \E rk \in Ranks : RowLinear_call(rk)
    \/ \E rk \in Ranks : Embedding_call(rk)
    \/ \E rk \in Ranks : Head_load(rk)
    \/ \E rk \in Ranks : Head_call(rk)
    \/ \E rk \in Ranks : Resume(rk)
    \/ AllReduce
    \/ AllGather
    \/ AllGatherIntoTensor

Spec == Init /\ [][Next]_vars

\* the adapter-aware layers called MaxCalls times in a row with the same
\* input and adapter_data, on batches that carry LoRA data for every layer
\* name of the layer (each call then runs the LoRA passes that write)
InitTwice ==
    \E W \in 1..MaxWorld :
        /\ process_group = [size |-> W]
        /\ \/ InitMultiAdapterLinear(W)
           \/ InitAdapterRowLinear(W)
        /\ \A n \in DOMAIN layer.layer_names :
              /\ LoraDataPresent(layer.layer_names[n])
              /\ adapter_data.data[layer.layer_names[n]].null_ptr = "none"
        /\ flash_mistral = NoFlashMistral
        /\ rotary = NoRotary

NextTwice ==
    \/ \E rk \in Ranks : MultiAdapterLinear_forward(rk)
    \/ \E rk \in Ranks : AdapterRowLinear_forward(rk)
    \/ \E rk \in Ranks : Resume(rk)
    \/ \E rk \in Ranks : CallAgain(rk)
    \/ AllReduce
    \/ AllGather

SpecTwice == InitTwice /\ [][NextTwice]_vars

(***************************************************************************)
(* Closed forms used to state the properties.                              *)
(***************************************************************************)
AdapterLayer ==
    layer.kind \in {"TensorParallelMultiAdapterLinear", "TensorParallelAdapterRowLinear"}

AllDone == \A rk \in Ranks : ranks[rk].pc = "done"

NameIndexes == 1..Len(layer.layer_names)

\* the collective calls of the base layer inside an adapter-aware forward
BaseCalls ==
    IF layer.kind = "TensorParallelAdapterRowLinear" /\ RowLinear_reduces
    THEN <<[op |-> "all_reduce", group |-> "process_group"]>>
    ELSE <<>>

\* result = self.base_layer(input), as rank rk holds it before any LoRA update
BaseResult(rk) ==
    IF layer.kind = "TensorParallelMultiAdapterLinear" THEN ColumnLinear_forward(rk)
    ELSE IF RowLinear_reduces
         THEN SumAll([k \in 1..process_group.size |-> RowLinear_local(k - 1)])
         ELSE RowLinear_local(rk)

\* sizes[0] + .. + sizes[n-1]
RECURSIVE SizesUpTo(_)
SizesUpTo(n) == IF n = 0 THEN 0 ELSE SizesUpTo(n - 1) + layer.sizes[n]

\* <<start_idx, end_idx>> the forward of the layer passes for layer name n on rank rk
SliceOf(rk, n) ==
    IF layer.kind = "TensorParallelMultiAdapterLinear"
    THEN IF layer.sizes = <<>> THEN <<0, OutWidth(1) \div process_group.size>>
         ELSE <<SizesUpTo(n - 1) \div process_group.size,
                SizesUpTo(n) \div process_group.size>>
    ELSE LET stride == OutWidth(1) \div process_group.size
         IN <<rk * stride, (rk + 1) * stride>>

(***************************************************************************)
(* Properties.                                                             *)
(***************************************************************************)

\* C1: in an adapter-aware forward (the batch data being the same on every
\* rank), all ranks issue the same sequence of collective calls: at any time
\* the calls of one rank are a prefix of the calls of the other, two ranks
\* blocked in a collective are blocked in the same call, no rank has
\* returned or failed while a peer is blocked in a collective, and ranks
\* that have returned have issued exactly the same calls.
C1_SameCollectiveSequence ==
    AdapterLayer =>
        \A r1 \in Ranks, r2 \in Ranks :
            /\ IsPrefix(ranks[r1].calls, ranks[r2].calls)
               \/ IsPrefix(ranks[r2].calls, ranks[r1].calls)
            /\ (ranks[r1].wait # "none" /\ ranks[r2].wait # "none")
                   => /\ ranks[r1].calls = ranks[r2].calls
                      /\ Rows(ranks[r1].payload) = Rows(ranks[r2].payload)
                      /\ Cols(ranks[r1].payload) = Cols(ranks[r2].payload)
            /\ ranks[r1].wait # "none" => ranks[r2].pc \notin {"done", "raised"}
            /\ (ranks[r1].pc = "done" /\ ranks[r2].pc = "done")
                   => ranks[r1].calls = ranks[r2].calls

\* C1 witness: a group of two or more ranks has finished an adapter-aware
\* forward in which every rank issued at least two collective calls.
C1_Witness ==
    /\ AdapterLayer
    /\ process_group.size >= 2
    /\ AllDone
    /\ \A rk \in Ranks : Len(ranks[rk].calls) >= 2

\* the layer names for which the batch carries no LoRA data
NamesWithoutLora == {n \in NameIndexes : ~LoraDataPresent(layer.layer_names[n])}

\* C2: for a layer type without LoRA data in the batch (no entry, or an entry
\* without LORA weights) forward_layer_type raises nothing, and once the
\* forward has returned the layer type's columns of the result are still the
\* base result; when no layer type of the layer has LoRA data the whole result
\* is the base result and the only collective calls are the base layer's.
\* This holds with and without the fused kernel.
C2_NoLoraDataBaseUnchanged ==
    AdapterLayer =>
        \A rk \in Ranks :
            /\ (NamesWithoutLora = NameIndexes) => ranks[rk].pc # "raised"
            /\ ranks[rk].pc = "done" =>
                  /\ \A n \in NamesWithoutLora :
                        ColSlice(ranks[rk].result, SliceOf(rk, n)[1], SliceOf(rk, n)[2])
                            = ColSlice(BaseResult(rk), SliceOf(rk, n)[1], SliceOf(rk, n)[2])
                  /\ (NamesWithoutLora = NameIndexes) =>
                        /\ ranks[rk].result = BaseResult(rk)
                        /\ ranks[rk].calls = BaseCalls

\* C2 witness: a forward has returned on a batch with adapters but without
\* LoRA data for the layer, the fused kernel being available.
C2_Witness ==
    /\ AdapterLayer
    /\ has_sgmv
    /\ NamesWithoutLora = NameIndexes
    /\ layer.layer_names[1] \in DOMAIN adapter_data.data
    /\ Cardinality(adapter_data.meta.adapter_set) = 2
    /\ AllDone

(***************************************************************************)
(* The fallback path in closed form: what lines 617-643 compute on rank rk *)
(* once every collect_lora_a has returned.                                 *)
(***************************************************************************)
\* a_out of forward_lora for adapter a and layer name n, after collect_lora_a
CollectedAOut(n, a) ==
    LET w == adapter_data.data[layer.layer_names[n]]
        parts == [k \in 1..process_group.size |->
                     MatMul(LocalInput(k - 1), LocalLoraA(k - 1, w, n, a))]
    IN IF process_group.size > 1
       THEN IF layer.kind = "TensorParallelMultiAdapterLinear"
            THEN CatCols(parts) ELSE SumAll(parts)
       ELSE parts[1]

\* layer_result of adapter a: (a_out @ lora_b) * adapter_mask
FallbackLayerResult(rk, n, a) ==
    MaskRows(MatMul(CollectedAOut(n, a),
                    LocalLoraB(rk, adapter_data.data[layer.layer_names[n]], n, a)),
             adapter_mask(a))

\* the loop over adapter_set from its k-th pass on, applied to res
RECURSIVE FallbackOverAdapters(_, _, _, _)
FallbackOverAdapters(rk, n, res, k) ==
    IF k > Len(AdapterOrder) THEN res
    ELSE LET a == AdapterOrder[k]
             lt == layer.layer_names[n]
             hit == LoraDataPresent(lt) /\ has_adapter(adapter_data.data[lt], a)
         IN FallbackOverAdapters(rk, n,
                IF hit THEN AddIntoSlice(res, SliceOf(rk, n)[1], SliceOf(rk, n)[2],
                                         FallbackLayerResult(rk, n, a))
                ELSE res,
                k + 1)

\* the layer names from the n-th on, applied to res
RECURSIVE FallbackOverNames(_, _, _)
FallbackOverNames(rk, res, n) ==
    IF n > Len(layer.layer_names) THEN res
    ELSE FallbackOverNames(rk, FallbackOverAdapters(rk, n, res, 1), n + 1)

\* the result of the forward when every layer type takes the fallback path
FallbackResult(rk) == FallbackOverNames(rk, BaseResult(rk), 1)

\* the layer names whose forward_layer_type takes the fused path
FusedNames == {n \in NameIndexes : UseFused(layer.layer_names[n])}

\* C3: on the same batch, adapter set, weights, input, slices and process
\* group, a forward whose layer types take the fused rank-bucketed path
\* returns on every rank the tensor the per-adapter masked fallback path
\* computes.
C3_FusedEqualsFallback ==
    (AdapterLayer /\ FusedNames # {}) =>
        \A rk \in Ranks :
            ranks[rk].pc = "done" => ranks[rk].result = FallbackResult(rk)

\* C3 witness: a forward over a batch with rows <<0, 1, 0>>, both adapters
\* holding weights, has returned through the fused path on two or more
\* ranks, with a result that differs from the base result.
C3_Witness ==
    /\ AdapterLayer
    /\ process_group.size >= 2
    /\ FusedNames = NameIndexes
    /\ adapter_data.meta.adapter_indices = <<0, 1, 0>>
    /\ adapter_data.data[layer.layer_names[1]].adapters = {0, 1}
    /\ AllDone
    /\ \A rk \in Ranks : ranks[rk].result # BaseResult(rk)

\* X @ A_a @ B_a of the unsharded weights for the rows X, the columns rank
\* rk holds
FullDelta(rk, n, a, X) ==
    LET w == adapter_data.data[layer.layer_names[n]]
    IN ColShard(MatMul(MatMul(X, LoraA(w, n, a)), LoraB(w, n, a)), rk)

\* what each row must receive for layer name n: the delta of the row's own
\* adapter when that adapter has weights, nothing otherwise
ExpectedDelta(rk, n) ==
    LET lt == layer.layer_names[n]
        idx == adapter_data.meta.adapter_indices
        width == SliceOf(rk, n)[2] - SliceOf(rk, n)[1]
        hit(a) == LoraDataPresent(lt) /\ has_adapter(adapter_data.data[lt], a)
        \* per adapter of the batch (in AdapterOrder), its delta on all rows
        deltas == [k \in 1..Len(AdapterOrder) |->
                      IF hit(AdapterOrder[k]) THEN FullDelta(rk, n, AdapterOrder[k], input)
                      ELSE <<>>] \o <<>>
        pos(a) == CHOOSE k \in 1..Len(AdapterOrder) : AdapterOrder[k] = a
    IN Tensor([i \in 1..Len(idx) |->
                  IF hit(idx[i]) THEN deltas[pos(idx[i])][i]
                  ELSE [j \in 1..width |-> 0]])

\* C4: on the fallback path, row i of the layer type's output columns is the
\* base row plus the delta X[i] @ A_a @ B_a of exactly the adapter
\* a = adapter_indices[i] (when a has weights for the layer), and of no other
\* adapter, also when an adapter's rows are not contiguous.
C4_FallbackRowsGetOwnDelta ==
    (AdapterLayer /\ FusedNames = {}) =>
        \A rk \in Ranks :
            ranks[rk].pc = "done" =>
                \A n \in NameIndexes :
                    ColSlice(ranks[rk].result, SliceOf(rk, n)[1], SliceOf(rk, n)[2])
                        = MatAdd(ColSlice(BaseResult(rk), SliceOf(rk, n)[1], SliceOf(rk, n)[2]),
                                 ExpectedDelta(rk, n))

\* C4 witness: the fallback path has returned for rows <<0, 1, 0>> (adapter
\* 0's rows not contiguous), both adapters holding weights whose deltas
\* differ on every row.
C4_Witness ==
    /\ AdapterLayer
    /\ FusedNames = {}
    /\ AllDone
    /\ adapter_data.meta.adapter_indices = <<0, 1, 0>>
    /\ LoraDataPresent(layer.layer_names[1])
    /\ adapter_data.data[layer.layer_names[1]].adapters = {0, 1}
    /\ \A rk \in Ranks : \A i \in 1..3 :
          /\ FullDelta(rk, 1, 0, input)[i] # FullDelta(rk, 1, 1, input)[i]
          /\ ExpectedDelta(rk, 1)[i] # [j \in 1..Len(ExpectedDelta(rk, 1)[i]) |-> 0]

(***************************************************************************)
(* The shrink X @ A of one loop pass: per rank, and unsharded.             *)
(***************************************************************************)
\* the local partial rank k hands to collect_lora_a in loop pass p
PartialShrink(k, p) ==
    LET w == adapter_data.data[layer.layer_names[p.li]]
    IN IF p.fused THEN lora_a_sgmv_cutlass(k, w, p.li, RankData(w)[p.it])
       ELSE MatMul(LocalInput(k), LocalLoraA(k, w, p.li, AdapterOrder[p.it]))

\* the same product computed by one process holding the whole X and A
UnshardedShrink(p) ==
    LET w == adapter_data.data[layer.layer_names[p.li]]
    IN IF p.fused
       THEN LET rs == RankData(w)[p.it]
                a0 == adapter_data.meta.segment_indices[rs.segments[1]]
            IN [i \in 1..Rows(input) |->
                   LET a == SegmentAdapter(rs, i)
                   IN IF a = -1 THEN [j \in 1..LoraRank(w, a0) |-> 0]
                      ELSE MatMul(<<input[i]>>, LoraA(w, p.li, a))[1]]
       ELSE MatMul(input, LoraA(w, p.li, AdapterOrder[p.it]))

AllPartials(p) == [k \in 1..process_group.size |-> PartialShrink(k - 1, p)]

\* C5: what TensorParallelMultiAdapterLinear.collect_lora_a returned to a
\* rank is the concatenation along dimension 1 of the local partials
\* X @ A_local of all ranks in rank order (rank 0's columns first); it equals
\* the unsharded X @ A (the group size divides A's column width), and ranks
\* in the same loop pass hold the same value.
C5_ColumnCollectIsConcat ==
    (layer.kind = "TensorParallelMultiAdapterLinear" /\ process_group.size > 1) =>
        \A rk \in Ranks :
            ranks[rk].last.it # 0 =>
                /\ ranks[rk].v = CatCols(AllPartials(ranks[rk].last))
                /\ ranks[rk].v = UnshardedShrink(ranks[rk].last)
                /\ \A r2 \in Ranks :
                      ranks[r2].last = ranks[rk].last => ranks[r2].v = ranks[rk].v

\* C5 witness: on two or more ranks, every rank has multiplied by B a
\* gathered X @ A of adapter 1, whose A holds two columns per rank.
C5_Witness ==
    /\ layer.kind = "TensorParallelMultiAdapterLinear"
    /\ process_group.size >= 2
    /\ \A rk \in Ranks :
          /\ ranks[rk].last.it # 0
          /\ Cols(ranks[rk].v) = 2 * process_group.size
          /\ Cols(PartialShrink(rk, ranks[rk].last)) = 2

\* C6: what TensorParallelAdapterRowLinear.collect_lora_a returned to a rank
\* is the element-wise sum over all ranks of the local partials
\* X_local @ A_local; it equals the unsharded X @ A, has the shape of the
\* local partial, and ranks in the same loop pass hold the same value.
C6_RowCollectIsSum ==
    (layer.kind = "TensorParallelAdapterRowLinear" /\ process_group.size > 1) =>
        \A rk \in Ranks :
            ranks[rk].last.it # 0 =>
                /\ ranks[rk].v = SumAll(AllPartials(ranks[rk].last))
                /\ ranks[rk].v = UnshardedShrink(ranks[rk].last)
                /\ Rows(ranks[rk].v) = Rows(PartialShrink(rk, ranks[rk].last))
                /\ Cols(ranks[rk].v) = Cols(PartialShrink(rk, ranks[rk].last))
                /\ \A r2 \in Ranks :
                      ranks[r2].last = ranks[rk].last => ranks[r2].v = ranks[rk].v

\* C6 witness: on two or more ranks of a row-sharded adapter layer, every
\* rank has multiplied by B an all-reduced X @ A that differs from its own
\* local partial.
C6_Witness ==
    /\ layer.kind = "TensorParallelAdapterRowLinear"
    /\ process_group.size >= 2
    /\ \A rk \in Ranks :
          /\ ranks[rk].last.it # 0
          /\ ranks[rk].v # PartialShrink(rk, ranks[rk].last)

(***************************************************************************)
(* Row-parallel linear, embedding, head.                                   *)
(***************************************************************************)
\* input @ W.T + bias of the unsharded row-parallel projection
FullRowLinear ==
    LET out == MatMul(input, BaseWeightT(1))
    IN [i \in 1..Rows(out) |->
           [o \in 1..Cols(out) |-> out[i][o] + (IF layer.bias THEN BiasVector[o] ELSE 0)]]

\* C7: TensorParallelRowLinear.forward issues exactly one sum all-reduce (of
\* its local output, on its process group) when the group has more than one
\* rank and all_reduce is not disabled, and then returns the same value on
\* every rank, the sum of the local outputs; otherwise it issues no
\* collective and returns the local output.
C7_RowLinearOneAllReduce ==
    layer.kind = "TensorParallelRowLinear" =>
        \A rk \in Ranks :
            ranks[rk].pc = "done" =>
                IF process_group.size > 1 /\ layer.all_reduce
                THEN /\ ranks[rk].calls = <<[op |-> "all_reduce", group |-> "process_group"]>>
                     /\ ranks[rk].result = FullRowLinear
                     /\ \A r2 \in Ranks :
                           ranks[r2].pc = "done" => ranks[r2].result = ranks[rk].result
                ELSE /\ ranks[rk].calls = <<>>
                     /\ ranks[rk].result = RowLinear_local(rk)

\* C7 witness: both behaviours have been seen to the end on two or more
\* ranks: here the all-reduced one, whose result no rank had locally.
C7_Witness ==
    /\ layer.kind = "TensorParallelRowLinear"
    /\ process_group.size >= 2
    /\ layer.all_reduce
    /\ AllDone
    /\ \A rk \in Ranks : ranks[rk].result # RowLinear_local(rk)

\* C8: for every vocabulary size, group size and id in [0, num_embeddings):
\* TensorParallelEmbedding.forward maps the id to the null (zero) row on every
\* rank where id < min_id or id >= max_id and to local row id - min_id on the
\* owning rank, so that after the sum all-reduce (or on a single rank) every
\* rank holds exactly the id's true embedding row.
C8_EmbeddingRowAfterReduce ==
    layer.kind = "TensorParallelEmbedding" =>
        \A rk \in Ranks :
            LET id == input[1]
                local == Embedding_lookup(rk)[1]
            IN /\ (id < min_id(rk) \/ id >= max_id(rk))
                      => /\ Embedding_index(rk, id) = null_idx
                         /\ local = [c \in 1..EmbedDim |-> 0]
               /\ (min_id(rk) <= id /\ id < max_id(rk))
                      => /\ Embedding_index(rk, id) = id - min_id(rk)
                         /\ local = EmbeddingRow(id)
               /\ (ranks[rk].pc = "done" /\ (layer.reduce \/ process_group.size = 1))
                      => ranks[rk].result = <<EmbeddingRow(id)>>

\* C9: TensorParallelHead.load on more than one rank: when the sharded load
\* fails because the rank count does not divide the output dimension, the
\* full weight is loaded with should_gather False and no error reaches the
\* caller; should_gather is True only when the sharded load succeeded; with a
\* single rank should_gather is False.
C9_HeadLoadFallback ==
    layer.kind = "TensorParallelHead" =>
        \A rk \in Ranks :
            /\ ranks[rk].pc # "raised"
            /\ ranks[rk].loaded =>
                  /\ (process_group.size > 1 /\ ~get_sharded_ok)
                        => (ranks[rk].weight = "full" /\ ~ranks[rk].should_gather)
                  /\ ranks[rk].should_gather
                        => (process_group.size > 1 /\ get_sharded_ok
                            /\ ranks[rk].weight = "sharded")
                  /\ process_group.size = 1 => ~ranks[rk].should_gather

\* C9 witness: every rank of a group of two or more has loaded a head whose
\* vocabulary the group size does not divide.
C9_Witness ==
    /\ layer.kind = "TensorParallelHead"
    /\ process_group.size >= 2
    /\ layer.num_embeddings % process_group.size # 0
    /\ \A rk \in Ranks : ranks[rk].loaded /\ ranks[rk].weight = "full"

\* every rank's local head output, in rank order
HeadLocalOutputs ==
    [k \in 1..process_group.size |-> MatMul(input, Head_weightT(k - 1, ranks[k - 1]))]

\* C10: TensorParallelHead.forward with should_gather True issues exactly one
\* all-gather on its process group and returns the concatenation along the
\* last dimension of every rank's local output in rank order (width = local
\* width x group size), the single-row fast branch and the general branch
\* alike; with should_gather False it issues no collective and returns the
\* local output.
C10_HeadGather ==
    layer.kind = "TensorParallelHead" =>
        \A rk \in Ranks :
            ranks[rk].pc = "done" =>
                IF ranks[rk].should_gather
                THEN /\ Len(ranks[rk].calls) = 1
                     /\ ranks[rk].calls[1].op \in {"all_gather", "all_gather_into_tensor"}
                     /\ ranks[rk].calls[1].group = "process_group"
                     /\ ranks[rk].result = CatCols(HeadLocalOutputs)
                     /\ Cols(ranks[rk].result)
                            = Cols(HeadLocalOutputs[rk + 1]) * process_group.size
                ELSE /\ ranks[rk].calls = <<>>
                     /\ ranks[rk].result = HeadLocalOutputs[rk + 1]

\* C10 witness: the fast branch has returned on every rank of a group of two
\* or more, for a head whose general branch was run on the same weights too.
C10_Witness ==
    /\ layer.kind = "TensorParallelHead"
    /\ process_group.size >= 2
    /\ AllDone
    /\ \A rk \in Ranks :
          /\ ranks[rk].should_gather
          /\ ranks[rk].calls[1].op = "all_gather_into_tensor"
          /\ ranks[rk].result # HeadLocalOutputs[rk + 1]

(***************************************************************************)
(* Layer construction.                                                     *)
(***************************************************************************)
\* the wrapper the quantize value names, "NotImplementedError" for one that
\* names none
WrapperFor(quantize) ==
    CASE quantize = "None" -> "FastLinear"
      [] quantize = "bitsandbytes" -> "Linear8bitLt"
      [] quantize \in {"bitsandbytes-nf4", "bitsandbytes-fp4"} -> "Linear4bit"
      [] quantize = "eetq" -> "EETQLinear"
      [] quantize = "gptq" -> "QuantLinear"
      [] quantize = "awq" -> "AWQLinear"
      [] quantize \in {"hqq-4bit", "hqq-3bit", "hqq-2bit"} -> "HQQLinearLayer"
      [] OTHER -> "NotImplementedError"

\* C11: get_linear selects the wrapper from the quantize value (FastLinear
\* for None, Linear8bitLt for bitsandbytes, Linear4bit for the 4-bit
\* formats, EETQLinear for eetq, the GPTQ/AWQ/HQQ wrappers for theirs) and
\* raises NotImplementedError for an unrecognized value instead of returning
\* a layer: a row-parallel layer that has been loaded holds the wrapper its
\* config.quantize names, and loading with an unrecognized value fails.
C11_GetLinearSelectsWrapper ==
    layer.kind = "TensorParallelRowLinear" =>
        \A rk \in Ranks :
            ranks[rk].pc # "load" =>
                IF WrapperFor(layer.quantize) = "NotImplementedError"
                THEN ranks[rk].pc = "raised" /\ ~ranks[rk].loaded
                ELSE ranks[rk].loaded /\ ranks[rk].linear = WrapperFor(layer.quantize)

AdapterBatchData ==
    {"input", "adapter_indices", "adapter_set", "adapter_segments",
     "segment_indices", "lora_a", "lora_b", "lora_a_ptr", "lora_b_ptr",
     "segment_starts", "segment_ends", "tmp_shrink", "tmp_expand"}

\* the scratch tensors of a rank bucket, handed to the SGMV kernels
ScratchBuffers == {"tmp_shrink", "tmp_expand"}

\* C14 as stated: a rank's forward writes none of the tensors of the adapter
\* batch data, the buffers reachable from rank_data included, nor the input
C14_AdapterDataNeverWritten ==
    \A rk \in Ranks :
        AdapterLayer => ranks[rk].written \cap AdapterBatchData = {}

\* C14: a rank's forward writes neither the input nor any tensor of the
\* adapter batch data other than the scratch buffers of the rank buckets,
\* and those are written on the fused path only
C14_OnlyScratchWritten ==
    \A rk \in Ranks :
        AdapterLayer =>
            /\ ranks[rk].written \cap (AdapterBatchData \ ScratchBuffers) = {}
            /\ (ranks[rk].written \cap ScratchBuffers # {}
                    => \E n \in DOMAIN layer.layer_names :
                           UseFused(layer.layer_names[n]))

\* a forward on the fused path has returned after the kernels wrote their
\* scratch and the LoRA delta went into the result
C14_Witness ==
    \E rk \in Ranks :
        /\ AdapterLayer /\ ranks[rk].pc = "done"
        /\ "result" \in ranks[rk].written
        /\ ranks[rk].result # BaseResult(rk)
        /\ ScratchBuffers \subseteq ranks[rk].written


(***************************************************************************)
(* The output head.                                                        *)
(***************************************************************************)
\* C15: once MultiAdapterHead.forward has returned on a rank, logits is the
\* result of the row-sharded adapter-aware forward whatever MEDUSA data the
\* batch carries; speculative_logits is not None exactly when the batch has
\* MEDUSA data for the head's layer name with a default_medusa, and then it
\* is that one head applied to every row of the input, whichever adapters
\* the rows belong to and however many speculative adapters the batch has
C15_HeadLogitsAndSpeculative ==
    \A rk \in Ranks :
        (layer.head /\ ranks[rk].pc = "done") =>
            /\ ranks[rk].result = FallbackResult(rk)
            /\ ranks[rk].speculative_logits # <<>>
                   <=> (MedusaData.present /\ MedusaData.has_default)
            /\ (MedusaData.present /\ MedusaData.has_default) =>
                   /\ Rows(ranks[rk].speculative_logits) = Rows(input)
                   /\ ranks[rk].speculative_logits
                          = MedusaModel(MedusaData.default_medusa, LocalInput(rk))

\* the head has returned LoRA-adjusted logits and speculative logits on a
\* batch with two speculative adapters whose rows are not all the default's
C15_Witness ==
    \E rk \in Ranks :
        /\ layer.head /\ ranks[rk].pc = "done"
        /\ Cardinality(MedusaData.adapters) = 2
        /\ MedusaData.has_default
        /\ \E i \in 1..Len(adapter_data.meta.adapter_indices) :
               adapter_data.meta.adapter_indices[i] # MedusaData.default_medusa
        /\ ranks[rk].speculative_logits # <<>>
        /\ ranks[rk].result # BaseResult(rk)


(***************************************************************************)
(* Adapters without weights for a layer type.                              *)
(***************************************************************************)
\* the adapters of the batch that have no weights for layer name n
MissingAdapters(n) ==
    adapter_data.meta.adapter_set \ adapter_data.data[layer.layer_names[n]].adapters

\* layer name n has LoRA data in which some adapter of the batch has weights
\* and another has none
PartlyCovered(n) ==
    /\ LoraDataPresent(layer.layer_names[n])
    /\ MissingAdapters(n) # {}
    /\ MissingAdapters(n) # adapter_data.meta.adapter_set

\* C16: when an adapter of the batch has no weights for a layer type and
\* another adapter has, no rank fails, and once the forward has returned the
\* rows of the adapter without weights hold the base result in the layer
\* type's columns while every other row holds the base result plus the
\* delta of its own adapter; on the fallback path and on the fused path
\* (with the adapter's segments in no bucket or in a bucket with a None
\* handle)
C16_MissingAdapterKeepsBase ==
    AdapterLayer =>
        \A rk \in Ranks : \A n \in NameIndexes :
            PartlyCovered(n) =>
                /\ ranks[rk].pc # "raised"
                /\ ranks[rk].pc = "done" =>
                      LET s == SliceOf(rk, n)
                          got == ColSlice(ranks[rk].result, s[1], s[2])
                          base == ColSlice(BaseResult(rk), s[1], s[2])
                          own == MatAdd(base, ExpectedDelta(rk, n))
                          idx == adapter_data.meta.adapter_indices
                      IN /\ got = own
                         /\ \A i \in 1..Len(idx) :
                               idx[i] \in MissingAdapters(n) => got[i] = base[i]

\* a fused forward has returned on a batch whose rank data holds a bucket
\* with a None handle for the adapter without weights, after the rows of the
\* other adapter received a delta
C16_Witness ==
    \E rk \in Ranks :
        /\ AdapterLayer /\ ranks[rk].pc = "done"
        /\ PartlyCovered(1)
        /\ UseFused(layer.layer_names[1])
        /\ adapter_data.data[layer.layer_names[1]].null_ptr = "lora_b_ptr"
        /\ ranks[rk].trace # <<>>
        /\ ranks[rk].result # BaseResult(rk)

\* the same on the fallback path: has_adapter was false for one adapter
C16_WitnessFallback ==
    \E rk \in Ranks :
        /\ AdapterLayer /\ ranks[rk].pc = "done"
        /\ PartlyCovered(1)
        /\ ~UseFused(layer.layer_names[1])
        /\ ranks[rk].result # BaseResult(rk)


(***************************************************************************)
(* The column slices of the packed layer names.                            *)
(***************************************************************************)
\* the slices a rank has passed to forward_layer_type are in order, start at
\* column 0, and each begins where the one before ends
SlicesContiguous(sl) ==
    /\ Len(sl) > 0 => sl[1][1] = 0
    /\ \A i \in 1..Len(sl) : sl[i][1] <= sl[i][2]
    /\ \A i \in 2..Len(sl) : sl[i][1] = sl[i - 1][2]

\* C17 as stated: for every list of sizes and every group size the slices
\* are in order, contiguous, disjoint, start at 0, and the i-th is exactly
\* sizes[i] / process_group.size() wide
C17_SliceWidthsExact ==
    \A rk \in Ranks :
        (layer.kind = "TensorParallelMultiAdapterLinear" /\ layer.sizes # <<>>) =>
            /\ SlicesContiguous(ranks[rk].slices)
            /\ \A i \in 1..Len(ranks[rk].slices) :
                  (ranks[rk].slices[i][2] - ranks[rk].slices[i][1]) * process_group.size
                      = layer.sizes[i]

\* C17: with sizes given, the slices are in order, contiguous, disjoint and
\* start at 0; the i-th is [S(i-1) div n, S(i) div n) for the running sums
\* S of sizes and the group size n, which is exactly sizes[i] / n wide when
\* n divides every size up to the i-th
C17_SlicesContiguousFloor ==
    \A rk \in Ranks :
        (layer.kind = "TensorParallelMultiAdapterLinear" /\ layer.sizes # <<>>) =>
            /\ SlicesContiguous(ranks[rk].slices)
            /\ \A i \in 1..Len(ranks[rk].slices) :
                  /\ ranks[rk].slices[i][1] = SizesUpTo(i - 1) \div process_group.size
                  /\ ranks[rk].slices[i][2] = SizesUpTo(i) \div process_group.size
                  /\ (\A k \in 1..i : layer.sizes[k] % process_group.size = 0) =>
                        (ranks[rk].slices[i][2] - ranks[rk].slices[i][1])
                            * process_group.size = layer.sizes[i]

\* a forward over two packed layer names has returned on a group that does
\* not divide the first size
C17_Witness ==
    \E rk \in Ranks :
        /\ layer.kind = "TensorParallelMultiAdapterLinear"
        /\ ranks[rk].pc = "done"
        /\ Len(ranks[rk].slices) = 2
        /\ layer.sizes[1] % process_group.size # 0


(***************************************************************************)
(* The effect of one forward_layer_type call on result.                    *)
(***************************************************************************)
\* C18: once the forward has returned on every rank, every call of
\* forward_layer_type it made, on either path, has left the
\* columns of result outside [start_idx, end_idx) as they were on entry and
\* left in the slice the entry values plus the LoRA delta of the layer type;
\* the fused path worked on a zeroed scratch of the slice's shape exactly
\* when the slice is narrower than result, and on result itself otherwise
C18_OnlySliceChanged ==
    (AdapterLayer /\ AllDone) =>
        \A rk \in Ranks : \A k \in 1..Len(ranks[rk].frames) :
            LET f == ranks[rk].frames[k]
                width == Cols(f.before)
            IN /\ Rows(f.after) = Rows(f.before) /\ Cols(f.after) = width
               /\ ColSlice(f.after, 0, f.start_idx) = ColSlice(f.before, 0, f.start_idx)
               /\ ColSlice(f.after, f.end_idx, width) = ColSlice(f.before, f.end_idx, width)
               /\ ColSlice(f.after, f.start_idx, f.end_idx)
                      = MatAdd(ColSlice(f.before, f.start_idx, f.end_idx),
                               ExpectedDelta(rk, f.li))
               /\ f.proj = IF f.fused /\ f.end_idx - f.start_idx # width
                           THEN Zeros(Rows(f.before), f.end_idx - f.start_idx)
                           ELSE <<>>

\* a rank has finished two fused calls on the slices of a packed pair of
\* layer names, the second through a scratch, each adding a delta to values
\* that were not zero
C18_Witness ==
    \E rk \in Ranks :
        /\ AdapterLayer /\ AllDone /\ Len(ranks[rk].frames) = 2
        /\ LET f == ranks[rk].frames[2]
           IN /\ f.fused /\ f.proj # <<>> /\ f.start_idx > 0
              /\ f.after # f.before
              /\ \A i \in 1..Rows(f.before) : \A j \in 1..Cols(f.before) :
                    f.before[i][j] # 0


(***************************************************************************)
(* The output of the row-sharded adapter layer across ranks.               *)
(***************************************************************************)
\* what one process holding the whole input and the unsharded weights
\* returns: the base output plus, on every column, each row's own delta
SingleProcessOutput ==
    LET lt == layer.layer_names[1]
        idx == adapter_data.meta.adapter_indices
        base == SumAll([k \in 1..process_group.size |-> RowLinear_local(k - 1)])
    IN [i \in 1..Len(idx) |->
           IF LoraDataPresent(lt) /\ has_adapter(adapter_data.data[lt], idx[i])
           THEN LET w == adapter_data.data[lt]
                IN MatAdd(<<base[i]>>,
                          MatMul(MatMul(<<input[i]>>, LoraA(w, 1, idx[i])),
                                 LoraB(w, 1, idx[i])))[1]
           ELSE base[i]]

\* C19: once TensorParallelAdapterRowLinear.forward has returned on every
\* rank of a group of more than one rank whose base layer all-reduces, all
\* ranks hold the same output, the base output plus the full LoRA delta on
\* all columns
C19_RowAdapterRanksAgree ==
    (layer.kind = "TensorParallelAdapterRowLinear" /\ process_group.size > 1
        /\ RowLinear_reduces /\ AllDone) =>
        \A rk \in Ranks :
            /\ ranks[rk].result = ranks[0].result
            /\ ranks[rk].result = SingleProcessOutput


(***************************************************************************)
(* The order of shrink, collect_lora_a and expand.                         *)
(***************************************************************************)
\* does pass `it` of the loop of forward_layer_type for layer name n do any
\* work: an adapter with weights (fallback), a bucket with both handles
\* (fused)
LivePass(n, it) ==
    LET lt == layer.layer_names[n]
    IN IF UseFused(lt)
       THEN LET rs == RankData(adapter_data.data[lt])[it]
            IN rs.lora_a_ptr # "None" /\ rs.lora_b_ptr # "None"
       ELSE LoraDataPresent(lt) /\ has_adapter(adapter_data.data[lt], AdapterOrder[it])

\* the number of passes of the loop for layer name n
Passes(n) ==
    LET lt == layer.layer_names[n]
    IN IF UseFused(lt) THEN Len(RankData(adapter_data.data[lt]))
       ELSE Len(AdapterOrder)

\* shrink, then collect_lora_a on a group of more than one rank, then expand
PassSteps(n, it) ==
    LET ev(op) == [op |-> op, li |-> n, it |-> it]
    IN IF process_group.size > 1
       THEN <<ev("shrink"), ev("collect_lora_a"), ev("expand")>>
       ELSE <<ev("shrink"), ev("expand")>>

\* the steps of the passes it.. of layer name n and of all later layer names
RECURSIVE StepsFrom(_, _)
StepsFrom(n, it) ==
    IF n > Len(layer.layer_names) THEN <<>>
    ELSE IF it > Passes(n) THEN StepsFrom(n + 1, 1)
    ELSE (IF LivePass(n, it) THEN PassSteps(n, it) ELSE <<>>) \o StepsFrom(n, it + 1)

\* the collect_lora_a steps of a trace
CollectSteps(tr) == SelectSeq(tr, LAMBDA e : e.op = "collect_lora_a")

\* C20: on a group of more than one rank a rank invokes collect_lora_a
\* exactly once per adapter of adapter_set with weights for the layer
\* (fallback path) or per rank bucket with both handles (fused path), after
\* that pass's shrink and before its expand, and issues one collective per
\* invocation; on a group of one rank it never invokes it
C20_CollectOncePerPass ==
    AdapterLayer =>
        \A rk \in Ranks :
            /\ IsPrefix(ranks[rk].trace, StepsFrom(1, 1))
            /\ ranks[rk].pc = "done" =>
                  /\ ranks[rk].trace = StepsFrom(1, 1)
                  /\ Len(ranks[rk].calls)
                         = Len(BaseCalls) + Len(CollectSteps(ranks[rk].trace))
            /\ process_group.size = 1 =>
                  CollectSteps(ranks[rk].trace) = <<>> /\ ranks[rk].calls = <<>>

\* every rank of a group of two or more has returned from a fused forward
\* that skipped a bucket with a None handle and ran a pass with a
\* collect_lora_a between shrink and expand
C20_Witness ==
    /\ AdapterLayer /\ AllDone /\ process_group.size > 1
    /\ UseFused(layer.layer_names[1])
    /\ \E it \in 1..Passes(1) : ~LivePass(1, it)
    /\ \A rk \in Ranks : Len(CollectSteps(ranks[rk].trace)) >= 1

(***************************************************************************)
(* The bias of the row-parallel projection.                                *)
(***************************************************************************)
\* M with k times the bias tensor added to every row
PlusBias(M, k) ==
    Tensor([i \in 1..Rows(M) |-> [o \in 1..Cols(M) |-> M[i][o] + k * BiasVector[o]]])

\* C21: a TensorParallelRowLinear loaded with bias=True holds the bias
\* tensor on rank 0 only, on a group of any size; with the sum all-reduce
\* every rank returns input @ W.T plus the bias exactly once, and with the
\* all-reduce disabled (or on one rank) rank 0 returns its partial product
\* plus the bias and every other rank its partial product without it.
C21_BiasExactlyOnce ==
    (layer.kind = "TensorParallelRowLinear" /\ layer.bias) =>
        \A rk \in Ranks :
            /\ ranks[rk].loaded => ((ranks[rk].bias = "tensor") <=> (rk = 0))
            /\ ranks[rk].pc = "done" =>
                  ranks[rk].result =
                      IF RowLinear_reduces
                      THEN PlusBias(MatMul(input, BaseWeightT(1)), 1)
                      ELSE PlusBias(MatMul(LocalInput(rk), RowShard(BaseWeightT(1), rk)),
                                    IF rk = 0 THEN 1 ELSE 0)

\* C21 witness: a row-parallel layer loaded with bias has returned the
\* all-reduced output on two or more ranks, and it differs from the product
\* without bias.
C21_Witness ==
    /\ layer.kind = "TensorParallelRowLinear" /\ layer.bias
    /\ process_group.size >= 2 /\ layer.all_reduce
    /\ AllDone
    /\ \A rk \in Ranks : /\ ranks[rk].loaded
                         /\ ranks[rk].result # MatMul(input, BaseWeightT(1))
                         /\ ranks[rk].result # PlusBias(MatMul(input, BaseWeightT(1)), process_group.size)

\* C21 second case: the all-reduce is disabled on two or more ranks and
\* only rank 0's output holds the bias.
C21_WitnessNoReduce ==
    /\ layer.kind = "TensorParallelRowLinear" /\ layer.bias
    /\ process_group.size >= 2 /\ ~layer.all_reduce
    /\ AllDone

(***************************************************************************)
(* FlashMistral (server/lorax_server/models/flash_mistral.py): the tables  *)
(* that tell the adapter loader which layers exist and how they shard.     *)
(***************************************************************************)
\* the layer-type names of lorax_server.utils.lora
Q_PROJ == "q_proj"

K_PROJ == "k_proj"

V_PROJ == "v_proj"

O_PROJ == "o_proj"

GATE_PROJ == "gate_proj"

UP_PROJ == "up_proj"

DOWN_PROJ == "down_proj"

LM_HEAD == "lm_head"

ADAPTER_LAYERS == <<Q_PROJ, K_PROJ, V_PROJ, O_PROJ, GATE_PROJ, UP_PROJ, DOWN_PROJ, LM_HEAD>>

\* variant: the output head is not listed
ROW_PARALLEL_nohead == {O_PROJ, DOWN_PROJ}

ROW_PARALLEL == {O_PROJ, DOWN_PROJ, LM_HEAD}

\* FlashMistral.adapter_layers
adapter_layers == ADAPTER_LAYERS

\* the layer types a caller may ask about: the advertised ones and one that
\* is not an adapter layer
LayerTypes == {ADAPTER_LAYERS[k] : k \in 1..Len(ADAPTER_LAYERS)} \cup {"embed_tokens"}

\* FlashMistral.is_row_parallel
is_row_parallel(layer_type) == layer_type \in ROW_PARALLEL

\* FlashMistral.get_num_layers_for_type
get_num_layers_for_type(fm, layer_type) ==
    IF layer_type = LM_HEAD THEN 1 ELSE fm.num_layers

\* the entries the loop body adds for decoder layer i: weight name (prefix,
\* index, suffix) and the module object that holds the weight
DecoderLayerEntries(i) ==
    LET at(suffix, module) == [name |-> <<"model.layers", i, suffix>>,
                               module |-> [layer |-> i, attr |-> module]]
    IN (<<i, Q_PROJ>> :> at("self_attn.q_proj", "self_attn.query_key_value"))
       @@ (<<i, K_PROJ>> :> at("self_attn.k_proj", "self_attn.query_key_value"))
       @@ (<<i, V_PROJ>> :> at("self_attn.v_proj", "self_attn.query_key_value"))
       @@ (<<i, O_PROJ>> :> at("self_attn.o_proj", "self_attn.o_proj"))
       @@ (<<i, GATE_PROJ>> :> at("mlp.gate_proj", "mlp.gate_up_proj"))
       @@ (<<i, UP_PROJ>> :> at("mlp.up_proj", "mlp.gate_up_proj"))
       @@ (<<i, DOWN_PROJ>> :> at("mlp.down_proj", "mlp.down_proj"))

\* the loop over enumerate(self.model.model.layers), from layer i on
RECURSIVE LayerWeightsFrom(_, _, _)
LayerWeightsFrom(fm, i, layer_weights) ==
    IF i >= fm.num_layers THEN layer_weights
    ELSE LayerWeightsFrom(fm, i + 1, DecoderLayerEntries(i) @@ layer_weights)

\* FlashMistral.adapter_target_to_layer: in embed mode the table is returned
\* before the head entry is added
adapter_target_to_layer(fm) ==
    LET layer_weights == LayerWeightsFrom(fm, 0, <<>>)
    IN IF fm.embed_mode THEN layer_weights
       ELSE (<<0, LM_HEAD>> :> [name |-> <<"lm_head">>,
                                module |-> [layer |-> -1, attr |-> "lm_head"]])
                @@ layer_weights

NoAnswer == [asked |-> "none", answer |-> "none"]

\* a FlashMistral on one rank of a group, in either mode, no method called
InitFlashMistral ==
    \E W \in 1..MaxWorld :
        /\ process_group = [size |-> W]
        /\ \E rk \in 0..(W - 1), embed_mode \in BOOLEAN, n \in 1..MaxLayers :
              flash_mistral = [built |-> TRUE, embed_mode |-> embed_mode,
                               num_layers |-> n, rank |-> rk,
                               has_table |-> FALSE, target_to_layer |-> <<>>,
                               row_parallel |-> NoAnswer, num_layers_for |-> NoAnswer]
        /\ has_sgmv = FALSE
        /\ layer = LayerRec("none", <<>>, <<>>, FALSE, FALSE, 0, FALSE, "None")
        /\ adapter_data = NoAdapterData
        /\ input = <<>>
        /\ ranks = [rk \in 0..(W - 1) |-> NewRank("done")]
        /\ rotary = NoRotary

Mistral_adapter_target_to_layer ==
    /\ flash_mistral.built
    /\ flash_mistral' = [flash_mistral EXCEPT
                            !.has_table = TRUE,
                            !.target_to_layer = adapter_target_to_layer(flash_mistral)]
    /\ UNCHANGED <<process_group, has_sgmv, layer, adapter_data, input, ranks, rotary>>

Mistral_get_num_layers_for_type ==
    /\ flash_mistral.built
    /\ \E t \in LayerTypes :
          flash_mistral' = [flash_mistral EXCEPT
                               !.num_layers_for =
                                   [asked |-> t,
                                    answer |-> get_num_layers_for_type(flash_mistral, t)]]
    /\ UNCHANGED <<process_group, has_sgmv, layer, adapter_data, input, ranks, rotary>>

Mistral_is_row_parallel ==
    /\ flash_mistral.built
    /\ \E t \in LayerTypes :
          flash_mistral' = [flash_mistral EXCEPT
                               !.row_parallel = [asked |-> t, answer |-> is_row_parallel(t)]]
    /\ UNCHANGED <<process_group, has_sgmv, layer, adapter_data, input, ranks, rotary>>

NextFlashMistral ==
    \/ Mistral_adapter_target_to_layer
    \/ Mistral_get_num_layers_for_type
    \/ Mistral_is_row_parallel

SpecFlashMistral == InitFlashMistral /\ [][NextFlashMistral]_vars

\* C22: whatever the mode, the rank and the calls made before, the answer of
\* is_row_parallel is True exactly for O_PROJ, DOWN_PROJ and LM_HEAD: False
\* for Q_PROJ, K_PROJ, V_PROJ, GATE_PROJ and UP_PROJ (and for a type that is
\* no adapter layer).
C22_RowParallelTable ==
    (flash_mistral.built /\ flash_mistral.row_parallel.asked # "none") =>
        LET t == flash_mistral.row_parallel.asked
            answer == flash_mistral.row_parallel.answer
        IN /\ answer \in BOOLEAN
           /\ t \in {O_PROJ, DOWN_PROJ, LM_HEAD} => answer = TRUE
           /\ t \in {Q_PROJ, K_PROJ, V_PROJ, GATE_PROJ, UP_PROJ} => answer = FALSE
           /\ answer = TRUE => t \in {O_PROJ, DOWN_PROJ, LM_HEAD}

\* C22 witness: in embed mode, on a rank other than 0, after the other
\* methods have been called, is_row_parallel has answered True for lm_head.
C22_Witness ==
    /\ flash_mistral.built /\ flash_mistral.embed_mode /\ flash_mistral.rank > 0
    /\ flash_mistral.has_table /\ flash_mistral.num_layers_for.asked # "none"
    /\ flash_mistral.row_parallel = [asked |-> LM_HEAD, answer |-> TRUE]

\* C22 second witness: is_row_parallel has answered False for a
\* column-parallel type.
C22_WitnessFalse ==
    /\ flash_mistral.built /\ ~flash_mistral.embed_mode
    /\ flash_mistral.row_parallel = [asked |-> GATE_PROJ, answer |-> FALSE]


\* do the entries of layer types t1 and t2 of decoder layer i name one module
SameModule(table, i, t1, t2) ==
    /\ <<i, t1>> \in DOMAIN table /\ <<i, t2>> \in DOMAIN table
    /\ table[<<i, t1>>].module = table[<<i, t2>>].module

\* C23: in every mode the table adapter_target_to_layer() returned has an
\* entry (i, t) for every layer type t of adapter_layers and every i in
\* [0, get_num_layers_for_type(t)), the (0, LM_HEAD) entry among them, and
\* per decoder layer Q/K/V name one module and GATE/UP name one module.
C23_EveryAdvertisedLayerHasEntry ==
    (flash_mistral.built /\ flash_mistral.has_table) =>
        LET table == flash_mistral.target_to_layer
        IN /\ \A k \in 1..Len(adapter_layers) :
                 \A i \in 0..(get_num_layers_for_type(flash_mistral, adapter_layers[k]) - 1) :
                     <<i, adapter_layers[k]>> \in DOMAIN table
           /\ \A i \in 0..(flash_mistral.num_layers - 1) :
                 /\ SameModule(table, i, Q_PROJ, K_PROJ)
                 /\ SameModule(table, i, K_PROJ, V_PROJ)
                 /\ SameModule(table, i, GATE_PROJ, UP_PROJ)


(***************************************************************************)
(* PositionRotaryEmbedding: construction from the rope-scaling             *)
(* configuration, and the cos/sin cache that may grow during warm-up only. *)
(***************************************************************************)
\* rope scaling types a configuration may name; "ntk" stands for a type the
\* code does not implement
RopeTypes == {"linear", "dynamic", "yarn", "ntk"}

Dtypes == {"float16", "float32"}

Devices == {"cuda:0", "cuda:1"}

\* _get_rope_config: the ROPE_SCALING environment variable wins over
\* config.rope_scaling; "None" when neither is set
get_rope_config(env, config) == IF env # "unset" THEN env ELSE config

\* self._cos_cached = None
NoneTensor == [fn |-> "None", seqlen |-> 0, inv_freq |-> <<>>, dtype |-> "None",
               device |-> "None"]

\* torch.cos(freqs).to(dtype) / torch.sin(freqs).to(dtype) for
\* t = arange(seqlen) on device and the object's inv_freq
Table(fn, r, inv_freq, dtype, device, seqlen) ==
    [fn |-> fn, seqlen |-> seqlen, inv_freq |-> inv_freq, dtype |-> dtype,
     device |-> device]

\* _update_cos_sin_cache of the object's class (the dynamic class first
\* rescales inv_freq when seqlen exceeds max_position_embeddings)
update_cos_sin_cache(r, dtype, device, seqlen) ==
    IF \/ seqlen > r.seq_len_cached
       \/ r.cos_cached.device # device
       \/ r.cos_cached.dtype # dtype
    THEN LET inv_freq ==
                 IF /\ r.class = "DynamicPositionRotaryEmbedding"
                    /\ seqlen > r.max_position_embeddings
                 THEN <<"newbase", seqlen>>
                 ELSE r.inv_freq
         IN [r EXCEPT !.inv_freq = inv_freq,
                      !.seq_len_cached = seqlen,
                      !.cos_cached = Table("cos", r, inv_freq, dtype, device, seqlen),
                      !.sin_cached = Table("sin", r, inv_freq, dtype, device, seqlen)]
    ELSE r

\* PositionRotaryEmbedding.__init__ (reached by the subclasses through
\* super().__init__): empty cache, then the first table for
\* max_position_embeddings positions
Rotary_init(r, class, inv_freq, scaling_factor, base) ==
    update_cos_sin_cache(
        [r EXCEPT !.pc = "constructed", !.class = class, !.inv_freq = inv_freq,
                  !.scaling_factor = scaling_factor, !.base = base,
                  !.seq_len_cached = 0,
                  !.cos_cached = NoneTensor, !.sin_cached = NoneTensor],
        r.dtype, r.device, r.max_position_embeddings)

Rotary_raise(r, error) == [r EXCEPT !.pc = "raised", !.error = error]

\* the branches on rope_type that static and load share
Rotary_scaled(r, rope_scaling, base) ==
    IF rope_scaling = "dynamic"
    THEN Rotary_init(r, "DynamicPositionRotaryEmbedding", <<"inv_freq", base>>,
                     "factor", base)
    ELSE IF rope_scaling = "yarn"
    THEN Rotary_init(r, "YarnPositionRotaryEmbedding", <<"yarn", base>>, "factor", base)
    ELSE Rotary_raise(r, "NotImplementedError")

\* PositionRotaryEmbedding.static(config, dim, base, device, dtype)
PositionRotaryEmbedding_static(r) ==
    LET rope_scaling == get_rope_config(r.env, r.config)
    IN IF rope_scaling = "None"
       THEN Rotary_init(r, "PositionRotaryEmbedding", <<"inv_freq", "base">>, "None", "base")
       ELSE IF rope_scaling = "linear"
       THEN Rotary_init(r, "PositionRotaryEmbedding", <<"inv_freq", "base">>, "factor",
                        "base")
       ELSE Rotary_scaled(r, rope_scaling, "base")

\* PositionRotaryEmbedding.load(config, prefix, weights): the last line calls
\* cls(inv_freq, scaling_factor), three arguments short of __init__
PositionRotaryEmbedding_load(r) ==
    LET rope_scaling == get_rope_config(r.env, r.config)
    IN IF rope_scaling = "None" \/ rope_scaling = "linear"
       THEN Rotary_raise(r, "TypeError")
       ELSE Rotary_scaled(r, rope_scaling, "10000.0")

\* variant: the cache is updated whatever is_warmup() says
get_cos_sin_always(r, max_s, dtype, device) ==
    LET u == update_cos_sin_cache(r, dtype, device, max_s)
    IN [u EXCEPT !.last = [max_s |-> max_s, dtype |-> dtype, device |-> device,
                           warmup |-> r.warmup],
                 !.returned = IF max_s <= u.seq_len_cached THEN "cos_sin" ELSE "IndexError"]

\* get_cos_sin(position_ids, max_s, dtype), position_ids on device and
\* reaching max_s - 1: the cache is updated under is_warmup() only, then the
\* rows of position_ids are selected from it
get_cos_sin(r, max_s, dtype, device) ==
    LET u == IF r.warmup THEN update_cos_sin_cache(r, dtype, device, max_s) ELSE r
    IN [u EXCEPT !.last = [max_s |-> max_s, dtype |-> dtype, device |-> device,
                           warmup |-> r.warmup],
                 !.returned = IF max_s <= u.seq_len_cached THEN "cos_sin" ELSE "IndexError"]

NoCall == [max_s |-> 0, dtype |-> "None", device |-> "None", warmup |-> FALSE]

\* a rope configuration and the arguments of the construction; the process
\* is warming up
InitRotary ==
    /\ \E env \in {"unset"} \cup RopeTypes, config \in {"None"} \cup RopeTypes,
          n \in 1..MaxSeq, dtype \in Dtypes :
          rotary = [built |-> TRUE, pc |-> "config", env |-> env, config |-> config,
                    max_position_embeddings |-> n, dtype |-> dtype,
                    device |-> "cuda:0", via |-> "none", class |-> "none",
                    error |-> "none", inv_freq |-> <<>>, scaling_factor |-> "None",
                    base |-> "none", seq_len_cached |-> 0,
                    cos_cached |-> NoneTensor, sin_cached |-> NoneTensor,
                    warmup |-> TRUE, last |-> NoCall, returned |-> "none"]
    /\ process_group = [size |-> 1]
    /\ has_sgmv = FALSE
    /\ layer = LayerRec("none", <<>>, <<>>, FALSE, FALSE, 0, FALSE, "None")
    /\ adapter_data = NoAdapterData
    /\ input = <<>>
    /\ ranks = [rk \in {0} |-> NewRank("done")]
    /\ flash_mistral = NoFlashMistral

Rotary_static ==
    /\ rotary.built /\ rotary.pc = "config"
    /\ rotary' = PositionRotaryEmbedding_static([rotary EXCEPT !.via = "static"])
    /\ UNCHANGED <<process_group, has_sgmv, layer, adapter_data, input, ranks, flash_mistral>>

Rotary_load ==
    /\ rotary.built /\ rotary.pc = "config"
    /\ rotary' = PositionRotaryEmbedding_load([rotary EXCEPT !.via = "load"])
    /\ UNCHANGED <<process_group, has_sgmv, layer, adapter_data, input, ranks, flash_mistral>>

Rotary_get_cos_sin ==
    /\ rotary.built /\ rotary.pc = "constructed"
    /\ \E max_s \in 1..(MaxSeq + 1), dtype \in Dtypes, device \in Devices :
          rotary' = get_cos_sin(rotary, max_s, dtype, device)
    /\ UNCHANGED <<process_group, has_sgmv, layer, adapter_data, input, ranks, flash_mistral>>

\* the process-wide warm-up flag is switched
Warmup_set ==
    /\ rotary.built
    /\ \E value \in BOOLEAN :
          /\ value # rotary.warmup
          /\ rotary' = [rotary EXCEPT !.warmup = value]
    /\ UNCHANGED <<process_group, has_sgmv, layer, adapter_data, input, ranks, flash_mistral>>

NextRotary ==
    \/ Rotary_static
    \/ Rotary_load
    \/ Rotary_get_cos_sin
    \/ Warmup_set

SpecRotary == InitRotary /\ [][NextRotary]_vars


\* the cos/sin cache of the rotary embedding
RotaryCache == <<rotary.cos_cached, rotary.sin_cached, rotary.seq_len_cached>>

\* C24: on a constructed rotary embedding no step changes _cos_cached,
\* _sin_cached or _seq_len_cached while is_warmup() is false, whatever max_s,
\* dtype and device get_cos_sin is called with; a step that changes them is
\* a get_cos_sin call during warm-up whose max_s exceeds _seq_len_cached or
\* whose device or dtype differs from the cached table's.
C24_CacheOnlyChangesInWarmup ==
    [][(rotary.built /\ rotary.pc = "constructed") =>
          /\ ~rotary.warmup => RotaryCache' = RotaryCache
          /\ RotaryCache' # RotaryCache =>
                /\ rotary.warmup
                /\ rotary'.last.warmup
                /\ \/ rotary'.last.max_s > rotary.seq_len_cached
                   \/ rotary'.last.device # rotary.cos_cached.device
                   \/ rotary'.last.dtype # rotary.cos_cached.dtype]_vars

\* C24 witness: after warm-up has ended get_cos_sin was called with a max_s
\* beyond the cached length and another dtype and device than the cached
\* table's, and the cache, grown during warm-up, is as it was.
C24_Witness ==
    /\ rotary.built /\ rotary.pc = "constructed"
    /\ ~rotary.warmup /\ ~rotary.last.warmup
    /\ rotary.last.max_s > rotary.seq_len_cached
    /\ rotary.last.dtype # rotary.cos_cached.dtype
    /\ rotary.last.device # rotary.cos_cached.device
    /\ rotary.seq_len_cached > rotary.max_position_embeddings


\* C25: static and load treat the rope-scaling configuration alike: for a
\* rope type other than linear, dynamic or yarn both raise
\* NotImplementedError, for dynamic and yarn both return an embedding of that
\* class, and without rope scaling or with linear both return a constructed
\* PositionRotaryEmbedding without error.
C25_StaticAndLoadAlike ==
    (rotary.built /\ rotary.via \in {"static", "load"}) =>
        LET rope_scaling == get_rope_config(rotary.env, rotary.config)
        IN /\ rope_scaling \notin {"None", "linear", "dynamic", "yarn"} =>
                 rotary.pc = "raised" /\ rotary.error = "NotImplementedError"
           /\ rope_scaling = "dynamic" =>
                 /\ rotary.pc = "constructed" /\ rotary.error = "none"
                 /\ rotary.class = "DynamicPositionRotaryEmbedding"
           /\ rope_scaling = "yarn" =>
                 /\ rotary.pc = "constructed" /\ rotary.error = "none"
                 /\ rotary.class = "YarnPositionRotaryEmbedding"
           /\ rope_scaling \in {"None", "linear"} =>
                 /\ rotary.pc = "constructed" /\ rotary.error = "none"
                 /\ rotary.class = "PositionRotaryEmbedding"


(***************************************************************************)
(* The group of every collective call.                                     *)
(***************************************************************************)
\* C26: every collective call a layer has issued (TensorParallelHead,
\* TensorParallelRowLinear, TensorParallelEmbedding, collect_lora_a of both
\* adapter layers) names the layer's own process_group, none the default
\* group, and a rank that holds gathered pieces holds process_group.size()
\* of them.
C26_CollectivesOnOwnGroup ==
    \A rk \in Ranks :
        /\ \A k \in 1..Len(ranks[rk].calls) : ranks[rk].calls[k].group = "process_group"
        /\ ranks[rk].wait # "none" => ranks[rk].group = "process_group"
        /\ (ranks[rk].wait = "none" /\ ranks[rk].pc \in {"collected", "head_gathered"}
              /\ ranks[rk].calls # <<>>
              /\ ranks[rk].calls[Len(ranks[rk].calls)].op = "all_gather")
               => Len(ranks[rk].recv) = process_group.size

=============================================================================
